---- MODULE Spec2Model ----
(***************************************************************************)
(* A model of the lz_compression crate: the bit-level reader and writer    *)
(* (bitstream.rs), the length-limited Huffman coder (huffman.rs), the LZW  *)
(* coders (lzw.rs) and the LZ77 greedy parser (lz77.rs).                   *)
(*                                                                         *)
(* Every codec is driven by its own specification (SpecBit, SpecTable,     *)
(* SpecHuff, SpecLZW, SpecLZWBytes, SpecLZ77): Init draws the input, the   *)
(* actions are the loop iterations of the encoder and of the decoder.      *)
(*                                                                         *)
(* Representation.  A u64 accumulator is a sequence of 64 bits, most       *)
(* significant first, and a u32 that travels through the bit stream is a   *)
(* sequence of 32 bits; shifts drop the bits that leave the word.  A panic *)
(* (assert!, unwrap of None, index out of range, checked arithmetic) is    *)
(* pc = "panic".                                                           *)
(***************************************************************************)
EXTENDS Integers, Sequences, FiniteSets, TLC

VARIABLES
    overflow_checks,  \* the build checks arithmetic overflow (debug profile)
    pc,               \* the driver's position
    input,            \* the arguments of the call under study
    writer,           \* BitWriter
    reader,           \* BitReader
    encoder,          \* the encoder's locals / fields
    decoder,          \* the decoder's locals / fields
    data,             \* what the encoder returned, handed to the decoder
    decoded,          \* what the decoder has produced
    local,            \* the loop variables of the function that is running
    hist              \* what the calls so far were given and returned

vars == <<overflow_checks, pc, input, writer, reader, encoder, decoder, data,
          decoded, local, hist>>

(***************************************************************************)
(* Bounds of the model.                                                    *)
(***************************************************************************)
MaxWrites == 3
MaxHuffLen == 4
MaxChunk == 3
MaxRun == 40

(***************************************************************************)
(* Words and bits.                                                         *)
(***************************************************************************)
None == [some |-> FALSE]
Some(v) == [some |-> TRUE, val |-> v]

\* 2^n for n in 0..30, the powers of two a 32-bit signed integer holds.
Pow2Table ==
    <<1, 2, 4, 8, 16, 32, 64, 128, 256, 512, 1024, 2048, 4096, 8192, 16384,
      32768, 65536, 131072, 262144, 524288, 1048576, 2097152, 4194304,
      8388608, 16777216, 33554432, 67108864, 134217728, 268435456,
      536870912, 1073741824>>
Pow2(n) == IF n <= 0 THEN 1 ELSE Pow2Table[n + 1]

Min(a, b) == IF a < b THEN a ELSE b
Max(a, b) == IF a > b THEN a ELSE b

Zeros(n) == [i \in 1..n |-> 0]

\* The natural number v (below 2^31) as n bits, most significant first.
BitsOf(v, n) ==
    [i \in 1..n |-> IF n - i >= 31 THEN 0 ELSE (v \div Pow2(n - i)) % 2]

\* The natural number a bit sequence spells (below 2^31).
RECURSIVE ValOf(_)
ValOf(bits) ==
    IF Len(bits) = 0 THEN 0
    ELSE 2 * ValOf(SubSeq(bits, 1, Len(bits) - 1)) + bits[Len(bits)]

U32(v) == BitsOf(v, 32)

\* x << s and x | y on 64-bit words.
Shl64(x, s) == SubSeq(x, s + 1, 64) \o Zeros(s)
Or64(x, y) == [i \in 1..64 |-> IF x[i] = 1 \/ y[i] = 1 THEN 1 ELSE 0]
\* (x as u64) for a word of n bits.
AsU64(x) == Zeros(64 - Len(x)) \o x
\* (x >> (64 - n)) as u32 : the top n bits of the accumulator.
TopBitsU32(x, n) == Zeros(32 - n) \o SubSeq(x, 1, n)

(***************************************************************************)
(* BitWriter (bitstream.rs).                                               *)
(***************************************************************************)
NewWriter ==
    [bits_written_to_buffer |-> 0, buffer |-> Zeros(64), bytes |-> <<>>,
     panic |-> FALSE]

total_bits_written(w) == Len(w.bytes) * 8 + w.bits_written_to_buffer

\* flush without its `self.buffer <<= 8`.
RECURSIVE FlushKeepsBuffer(_)
FlushKeepsBuffer(w) ==
    IF w.bits_written_to_buffer >= 8
    THEN FlushKeepsBuffer(
            [w EXCEPT !.bytes = Append(@, ValOf(SubSeq(w.buffer, 1, 8))),
                      !.bits_written_to_buffer = @ - 8])
    ELSE w

RECURSIVE flush(_)
flush(w) ==
    IF w.bits_written_to_buffer >= 8
    THEN flush([w EXCEPT !.bytes = Append(@, ValOf(SubSeq(w.buffer, 1, 8))),
                         !.buffer = Shl64(@, 8),
                         !.bits_written_to_buffer = @ - 8])
    ELSE w

\* data is a u32 (32 bits).  The mask keeps its low bit_num bits; the shift
\* 64 - bits_written_to_buffer - bit_num is 64 for a zero-width write on an
\* empty accumulator, which a checked build refuses and an unchecked build
\* takes modulo 64.
write_bits_u32(w, d, bit_num) ==
    IF bit_num > 32 THEN [w EXCEPT !.panic = TRUE]
    ELSE LET masked == AsU64(SubSeq(d, 33 - bit_num, 32))
             sh == 64 - w.bits_written_to_buffer - bit_num
         IN  IF sh >= 64 /\ overflow_checks THEN [w EXCEPT !.panic = TRUE]
             ELSE flush([w EXCEPT
                    !.buffer = Or64(@, Shl64(masked, sh % 64)),
                    !.bits_written_to_buffer = @ + bit_num])

\* write_bits_u16: the same steps on a u16 (16 bits).
U16(v) == BitsOf(v, 16)

write_bits_u16(w, d, bit_num) ==
    IF bit_num > 16 THEN [w EXCEPT !.panic = TRUE]
    ELSE LET masked == AsU64(SubSeq(d, 17 - bit_num, 16))
             sh == 64 - w.bits_written_to_buffer - bit_num
         IN  IF sh >= 64 /\ overflow_checks THEN [w EXCEPT !.panic = TRUE]
             ELSE flush([w EXCEPT
                    !.buffer = Or64(@, Shl64(masked, sh % 64)),
                    !.bits_written_to_buffer = @ + bit_num])

get_bytes(w) ==
    IF w.bits_written_to_buffer > 0
    THEN Append(w.bytes, ValOf(SubSeq(w.buffer, 1, 8)))
    ELSE w.bytes

(***************************************************************************)
(* BitReader (bitstream.rs).                                               *)
(***************************************************************************)
RECURSIVE refill(_)
refill(r) ==
    IF r.unused_bits_in_buffer >= 8 /\ Len(r.bytes) > 0
    THEN refill([r EXCEPT
            !.bytes = Tail(@),
            !.bits_in_buffer = @ + 8,
            !.unused_bits_in_buffer = @ - 8,
            !.buffer = Or64(@, Shl64(AsU64(BitsOf(r.bytes[1], 8)),
                                     r.unused_bits_in_buffer - 8))])
    ELSE r

NewReader(bytes) ==
    refill([buffer |-> Zeros(64), remaining_bits |-> Len(bytes) * 8,
            bits_in_buffer |-> 0, unused_bits_in_buffer |-> 64,
            bytes |-> bytes])

\* The result of a read: the reader afterwards, the Option returned, and
\* whether the call panicked.
Ret(r, v) == [reader |-> r, val |-> v, panic |-> FALSE]
Panicked(r) == [reader |-> r, val |-> None, panic |-> TRUE]

\* The four assignments every consuming read ends with, then refill.
Consume(r, bit_num) ==
    refill([r EXCEPT !.buffer = Shl64(@, bit_num),
                     !.bits_in_buffer = @ - bit_num,
                     !.unused_bits_in_buffer = @ + bit_num,
                     !.remaining_bits = @ - bit_num])

RECURSIVE read_bits_into_u32(_, _)
read_bits_into_u32(r, bit_num) ==
    IF bit_num > 32 THEN Panicked(r)
    ELSE IF r.remaining_bits = 0 THEN Ret(r, None)
    ELSE IF bit_num > r.remaining_bits
         THEN read_bits_into_u32(r, r.remaining_bits)
    ELSE IF bit_num = 0 THEN Ret(r, Some(U32(0)))
    ELSE Ret(Consume(r, bit_num), Some(TopBitsU32(r.buffer, bit_num)))

\* read_bits_into_u16: the same steps, the value a u16.
TopBitsU16(x, n) == Zeros(16 - n) \o SubSeq(x, 1, n)

RECURSIVE read_bits_into_u16(_, _)
read_bits_into_u16(r, bit_num) ==
    IF bit_num > 16 THEN Panicked(r)
    ELSE IF r.remaining_bits = 0 THEN Ret(r, None)
    ELSE IF bit_num > r.remaining_bits
         THEN read_bits_into_u16(r, r.remaining_bits)
    ELSE IF bit_num = 0 THEN Ret(r, Some(U16(0)))
    ELSE Ret(Consume(r, bit_num), Some(TopBitsU16(r.buffer, bit_num)))

\* peek_bits_into_u32: the Option alone, the reader is not changed.
RECURSIVE peek_bits_into_u32(_, _)
peek_bits_into_u32(r, bit_num) ==
    IF bit_num > 32 THEN Panicked(r)
    ELSE IF r.remaining_bits = 0 THEN Ret(r, None)
    ELSE IF bit_num > r.remaining_bits
         THEN peek_bits_into_u32(r, r.remaining_bits)
    ELSE IF bit_num = 0 THEN Ret(r, Some(U32(0)))
    ELSE Ret(r, Some(TopBitsU32(r.buffer, bit_num)))

\* The peeked value left as it is, not shifted up.
NotShifted(x, s) == x

\* val << shift_amount on a u32.
Shl32(x, s) == SubSeq(x, s + 1, 32) \o Zeros(s)

peek_bits_into_u32_with_shift(r, bit_num) ==
    IF bit_num > 32 THEN Panicked(r)
    ELSE IF r.remaining_bits = 0 THEN Ret(r, None)
    ELSE IF bit_num > r.remaining_bits
         THEN LET shift_amount == bit_num - r.remaining_bits
                  val == peek_bits_into_u32(r, r.remaining_bits).val.val
              IN  Ret(r, Some(Shl32(val, shift_amount)))
    ELSE IF bit_num = 0 THEN Ret(r, Some(U32(0)))
    ELSE Ret(r, Some(TopBitsU32(r.buffer, bit_num)))

\* read_bits_into_u32_with_shift: the last branch consumes like the other
\* reads but for remaining_bits, which it leaves as it was.
read_bits_into_u32_with_shift(r, bit_num) ==
    IF bit_num > 32 THEN Panicked(r)
    ELSE IF r.remaining_bits = 0 THEN Ret(r, None)
    ELSE IF bit_num > r.remaining_bits
         THEN LET shift_amount == bit_num - r.remaining_bits
                  rd == read_bits_into_u32(r, r.remaining_bits)
              IN  Ret(rd.reader, Some(Shl32(rd.val.val, shift_amount)))
    ELSE IF bit_num = 0 THEN Ret(r, Some(U32(0)))
    ELSE Ret(refill([r EXCEPT !.buffer = Shl64(@, bit_num),
                              !.bits_in_buffer = @ - bit_num,
                              !.unused_bits_in_buffer = @ + bit_num]),
             Some(TopBitsU32(r.buffer, bit_num)))

\* The call stack is finite: a recursion deeper than StackDepth overflows it.
StackDepth == 6

\* The tail of empty_bits: shift, three updates, refill.  The shift is
\* checked against the word size and the subtractions against zero in a
\* checked build; an unchecked build shifts modulo 64 and wraps.
EmptyTail(r, bit_num) ==
    IF overflow_checks /\ (bit_num >= 64 \/ bit_num > r.bits_in_buffer
                           \/ bit_num > r.remaining_bits)
    THEN Panicked(r)
    ELSE Ret(refill([r EXCEPT
                !.buffer = Shl64(@, bit_num % 64),
                !.bits_in_buffer = @ - bit_num,
                !.unused_bits_in_buffer = @ + bit_num,
                !.remaining_bits = @ - bit_num]), None)

\* empty_bits calls itself before it consumes: once with remaining_bits when
\* bit_num exceeds it, and twice when bit_num exceeds bits_in_buffer.
RECURSIVE EmptyBitsRec(_, _, _)
EmptyBitsRec(r, bit_num, depth) ==
    IF depth > StackDepth THEN Panicked(r)
    ELSE
    LET a == IF bit_num > r.remaining_bits
             THEN EmptyBitsRec(r, r.remaining_bits, depth + 1)
             ELSE Ret(r, None)
    IN  IF a.panic THEN a
        ELSE IF bit_num > a.reader.bits_in_buffer
        THEN LET b == EmptyBitsRec(a.reader, a.reader.bits_in_buffer, depth + 1)
             IN  IF b.panic THEN b
                 ELSE LET c == EmptyBitsRec(b.reader,
                                   bit_num - b.reader.bits_in_buffer, depth + 1)
                      IN  IF c.panic THEN c ELSE EmptyTail(c.reader, bit_num)
        ELSE EmptyTail(a.reader, bit_num)

empty_bits(r, bit_num) == EmptyBitsRec(r, bit_num, 0)

(***************************************************************************)
(* Huffman (huffman.rs): constants, the tree and std's BinaryHeap.         *)
(***************************************************************************)
HUFFMAN_MAX_SYMBOLS == 512
HUFFMAN_MAX_SYMBOLS_SIZE == 9
HUFFMAN_CHUNK_SIZE_BITS == 32
MAX_CODE_LEN == 12
HUFFMAN_DEFAULT_CHUNK_SIZE == 262144

\* (x as f32).log2().ceil() as usize ; log2(0) is -inf, which casts to 0.
RECURSIVE CeilLog2From(_, _)
CeilLog2From(x, b) == IF Pow2(b) >= x THEN b ELSE CeilLog2From(x, b + 1)
CeilLog2(x) == IF x <= 1 THEN 0 ELSE CeilLog2From(x, 1)

leaf(symbol, freq) == [is_leaf |-> TRUE, symbol |-> symbol, freq |-> freq]
node(left, right) ==
    [is_leaf |-> FALSE, left |-> left, right |-> right,
     freq |-> left.freq + right.freq]

\* a <= b in `impl Ord for HuffmanNode`, which compares other.freq to self.freq.
NodeLe(a, b) == a.freq >= b.freq

\* BinaryHeap (a max-heap) on a vector; positions count from 0.
RECURSIVE sift_up(_, _, _, _)
sift_up(d, start, pos, elt) ==
    IF pos > start
    THEN LET parent == (pos - 1) \div 2
         IN  IF NodeLe(elt, d[parent + 1])
             THEN [d EXCEPT ![pos + 1] = elt]
             ELSE sift_up([d EXCEPT ![pos + 1] = d[parent + 1]], start, parent, elt)
    ELSE [d EXCEPT ![pos + 1] = elt]

heap_push(d, item) == sift_up(Append(d, item), 0, Len(d), item)

RECURSIVE sift_down_to_bottom(_, _, _)
sift_down_to_bottom(d, hole, elt) ==
    LET end == Len(d)
        child == 2 * hole + 1
    IN  IF child <= Max(end - 2, 0)
        THEN LET c == IF NodeLe(d[child + 1], d[child + 2]) THEN child + 1 ELSE child
             IN  sift_down_to_bottom([d EXCEPT ![hole + 1] = d[c + 1]], c, elt)
        ELSE IF child = end - 1
        THEN sift_up([d EXCEPT ![hole + 1] = d[child + 1]], 0, child, elt)
        ELSE sift_up(d, 0, hole, elt)

\* pop: the root, and the heap without it.
heap_pop(d) ==
    LET last == d[Len(d)]
        rest == SubSeq(d, 1, Len(d) - 1)
    IN  IF Len(rest) = 0 THEN [item |-> last, heap |-> rest]
        ELSE [item |-> rest[1], heap |-> sift_down_to_bottom(rest, 0, last)]

RECURSIVE leaves_helper(_, _)
leaves_helper(n, level) ==
    IF n.is_leaf THEN << [symbol |-> n.symbol, level |-> level] >>
    ELSE leaves_helper(n.left, level + 1) \o leaves_helper(n.right, level + 1)

leaves(n) ==
    IF n.is_leaf THEN << [symbol |-> n.symbol, level |-> 1] >>
    ELSE leaves_helper(n, 0)

(***************************************************************************)
(* HuffmanEncoder.  freq_table and code_map are indexed by symbol          *)
(* (0 .. max_symbols - 1), table is the vector of (symbol, level).         *)
(***************************************************************************)
Symbols == 0..(HUFFMAN_MAX_SYMBOLS - 1)

NewEncoder ==
    [freq_table |-> [s \in Symbols |-> 0],
     table |-> <<>>,
     code_map |-> [s \in Symbols |-> None]]

Count(symbols, s) == Cardinality({i \in 1..Len(symbols) : symbols[i] = s})

build_frequency_table(symbols) == [s \in Symbols |-> Count(symbols, s)]

\* The first loop of build_huffman_table: one leaf per symbol of non-zero
\* frequency, pushed in ascending symbol order.
SetMin(S) == CHOOSE x \in S : \A y \in S : x <= y

RECURSIVE PushLeaves(_, _, _)
PushLeaves(freq_table, todo, heap) ==
    IF todo = {} THEN heap
    ELSE LET byte == SetMin(todo)
         IN  PushLeaves(freq_table, todo \ {byte},
                        heap_push(heap, leaf(byte, freq_table[byte])))

\* while node_heap.len() > 1 : pop left, pop right, push their parent.
RECURSIVE MergeNodes(_)
MergeNodes(heap) ==
    IF Len(heap) > 1
    THEN LET l == heap_pop(heap)
             r == heap_pop(l.heap)
         IN  MergeNodes(heap_push(r.heap, node(l.item, r.item)))
    ELSE heap

\* self.table.sort(): a stable sort under `impl Ord for HuffmanTableData`,
\* which compares the levels only.
RECURSIVE SortFrom(_, _, _)
SortFrom(t, l, top) ==
    IF l > top THEN <<>>
    ELSE LET AtLevel(e) == e.level = l
         IN  SelectSeq(t, AtLevel) \o SortFrom(t, l + 1, top)

MaxLevelFrom(t, i) ==
    IF i > Len(t) THEN 0
    ELSE LET levels == {t[j].level : j \in i..Len(t)}
         IN  CHOOSE l \in levels : \A m \in levels : l >= m
MaxLevel(t) == MaxLevelFrom(t, 1)

sort(t) == SortFrom(t, 0, MaxLevel(t))

\* The three loops of limit_huffman_table_code_sizes on (table, k).
Weight(level) == Pow2(MAX_CODE_LEN - level)
\* The whole code space, 2^MAX_CODE_LEN, as the limit of k.
WholeCodeSpace == Pow2(MAX_CODE_LEN)

K_MAX == Pow2(MAX_CODE_LEN) - 1

RECURSIVE ClampLevels(_, _, _)
ClampLevels(t, k, i) ==
    IF i > Len(t) THEN [table |-> t, k |-> k]
    ELSE LET lv == Min(t[i].level, MAX_CODE_LEN)
         IN  ClampLevels([t EXCEPT ![i].level = lv], k + Weight(lv), i + 1)

RECURSIVE RaiseToMax(_, _, _)
RaiseToMax(t, k, i) ==
    IF t[i].level < MAX_CODE_LEN
    THEN RaiseToMax([t EXCEPT ![i].level = @ + 1], k - Weight(t[i].level + 1), i)
    ELSE [table |-> t, k |-> k]

\* The second loop left out: no level is raised.
NothingDeepened(t, k, i) == [table |-> t, k |-> k]

RECURSIVE DeepenFromEnd(_, _, _)
DeepenFromEnd(t, k, i) ==
    IF i < 1 \/ k <= K_MAX THEN [table |-> t, k |-> k]
    ELSE LET r == RaiseToMax(t, k, i)
         IN  DeepenFromEnd(r.table, r.k, i - 1)

\* One lowering without the test that it fits under k_max.
LowerAnyway(t, k, i) ==
    [table |-> [t EXCEPT ![i].level = @ - 1], k |-> k + Weight(t[i].level)]

RECURSIVE LowerWhileFits(_, _, _)
LowerWhileFits(t, k, i) ==
    IF k + Weight(t[i].level) <= K_MAX
    THEN LowerWhileFits([t EXCEPT ![i].level = @ - 1], k + Weight(t[i].level), i)
    ELSE [table |-> t, k |-> k]

RECURSIVE RedistributeFromStart(_, _, _)
RedistributeFromStart(t, k, i) ==
    IF i > Len(t) THEN [table |-> t, k |-> k]
    ELSE LET r == LowerWhileFits(t, k, i)
         IN  RedistributeFromStart(r.table, r.k, i + 1)

\* The table afterwards, its k, and whether the assert! at the top failed.
limit_huffman_table_code_sizes(t) ==
    IF CeilLog2(Len(t)) > MAX_CODE_LEN
    THEN [table |-> t, k |-> 0, panic |-> TRUE]
    ELSE LET a == ClampLevels(t, 0, 1)
             b == DeepenFromEnd(a.table, a.k, Len(t))
             c == RedistributeFromStart(b.table, b.k, 1)
         IN  [table |-> c.table, k |-> c.k, panic |-> FALSE]

\* The codes counted up without the shift at a new level.
RECURSIVE CodesNotShifted(_, _, _, _, _)
CodesNotShifted(t, i, code, last_level, code_map) ==
    IF i > Len(t) THEN code_map
    ELSE LET c == IF last_level = 0 THEN code ELSE code + 1
         IN  CodesNotShifted(t, i + 1, c, t[i].level,
                [code_map EXCEPT ![t[i].symbol] = Some(<<c, t[i].level>>)])

\* The iterations lo..hi of the loop of build_huffman_code_map on st: code,
\* last_level and code_map.  The range is split in halves so that tables of
\* HUFFMAN_MAX_SYMBOLS entries nest no deeper than their logarithm.
RECURSIVE AssignRange(_, _, _, _)
AssignRange(t, lo, hi, st) ==
    IF lo > hi THEN st
    ELSE IF lo = hi
    THEN LET level == t[lo].level
             c == IF st.last_level # level
                  THEN IF st.last_level # 0
                       THEN (st.code + 1) * Pow2(level - st.last_level)
                       ELSE st.code
                  ELSE st.code + 1
         IN  [code |-> c, last_level |-> level,
              code_map |-> [st.code_map EXCEPT ![t[lo].symbol] = Some(<<c, level>>)]]
    ELSE LET mid == (lo + hi) \div 2
             left == AssignRange(t, lo, mid, st)
         IN  IF left.last_level >= 0   \* always: settles the left half first
             THEN AssignRange(t, mid + 1, hi, left)
             ELSE left

\* build_huffman_code_map: code and last_level carried along the table.
AssignCodes(t, i, code, last_level, code_map) ==
    AssignRange(t, i, Len(t),
                [code |-> code, last_level |-> last_level,
                 code_map |-> code_map]).code_map

build_huffman_code_map(t) ==
    AssignCodes(t, 1, 0, 0, [s \in Symbols |-> None])

\* `code <<= level - last_level` on usize: a level below the one before it
\* underflows (a panic of the checked build).
LevelsUnderflow(t) ==
    \E i \in 2..Len(t) : t[i].level < t[i - 1].level

\* build_huffman_table: heap, tree, leaves, sort, limit, code map.  With no
\* symbol at all, node_heap.pop().unwrap() panics.
build_huffman_table(enc) ==
    LET heap == MergeNodes(PushLeaves(enc.freq_table,
                        {b \in Symbols : enc.freq_table[b] > 0}, <<>>))
    IN  IF Len(heap) = 0 THEN [enc |-> enc, sorted |-> <<>>, panic |-> TRUE]
        ELSE LET sorted == sort(leaves(heap[1]))
                 lim == limit_huffman_table_code_sizes(sorted)
             IN  [enc |-> [enc EXCEPT
                              !.table = lim.table,
                              !.code_map = build_huffman_code_map(lim.table)],
                  sorted |-> sorted,
                  panic |-> lim.panic \/ LevelsUnderflow(lim.table)]

\* write_bits_u32 of a small number.
WriteU32(w, v, bit_num) == write_bits_u32(w, U32(v), bit_num)

\* The entries lo..hi of the loop of write_huffman_table, split in halves;
\* `level as u32 - 1` of a level 0 panics.
RECURSIVE WriteEntryRange(_, _, _, _, _)
WriteEntryRange(t, lo, hi, bits_per_level, w) ==
    IF lo > hi \/ w.panic THEN w
    ELSE IF lo = hi
    THEN IF t[lo].level = 0 THEN [w EXCEPT !.panic = TRUE]
         ELSE WriteU32(WriteU32(w, t[lo].symbol, HUFFMAN_MAX_SYMBOLS_SIZE),
                       t[lo].level - 1, bits_per_level)
    ELSE LET mid == (lo + hi) \div 2
             left == WriteEntryRange(t, lo, mid, bits_per_level, w)
         IN  IF left.panic THEN left
             ELSE WriteEntryRange(t, mid + 1, hi, bits_per_level, left)

WriteEntries(t, i, bits_per_level, w) ==
    WriteEntryRange(t, i, Len(t), bits_per_level, w)

\* write_huffman_table: the entry count, the maximum level in 4 bits, then
\* (symbol, level - 1) per entry.
write_huffman_table(enc, w) ==
    IF Len(enc.table) > HUFFMAN_MAX_SYMBOLS \/ Len(enc.table) = 0
    THEN [w EXCEPT !.panic = TRUE]
    ELSE LET max_level == MaxLevel(enc.table)
             bits_per_level == Max(CeilLog2(max_level), 1)
         IN  WriteEntries(enc.table, 1, bits_per_level,
                WriteU32(WriteU32(w, Len(enc.table), HUFFMAN_MAX_SYMBOLS_SIZE),
                         max_level, 4))

RECURSIVE WriteCodes(_, _, _, _)
WriteCodes(code_map, symbols, i, w) ==
    IF i > Len(symbols) \/ w.panic THEN w
    ELSE WriteCodes(code_map, symbols, i + 1,
            IF code_map[symbols[i]].some
            THEN WriteU32(w, code_map[symbols[i]].val[1], code_map[symbols[i]].val[2])
            ELSE w)

\* encode_symbols: the number of symbols in 32 bits, then their codes.
encode_symbols(enc, symbols, w) ==
    WriteCodes(enc.code_map, symbols, 1,
               WriteU32(w, Len(symbols), HUFFMAN_CHUNK_SIZE_BITS))

\* encode_chunk: frequency table, table and code map, the table written,
\* the symbols written.
encode_chunk(enc, chunk, w) ==
    LET b == build_huffman_table(
                [enc EXCEPT !.freq_table = build_frequency_table(chunk)])
        wt == write_huffman_table(b.enc, w)
        ws == encode_symbols(b.enc, chunk, wt)
    IN  [enc |-> b.enc, sorted |-> b.sorted, table_end |-> wt,
         writer |-> IF b.panic THEN [w EXCEPT !.panic = TRUE] ELSE ws]

(***************************************************************************)
(* HuffmanDecoder.  symbol_map and level_map have 2^MAX_CODE_LEN entries   *)
(* and are not cleared between chunks.                                     *)
(***************************************************************************)
Paths == 0..(Pow2(MAX_CODE_LEN) - 1)

NewDecoder ==
    [table |-> <<>>,
     symbol_map |-> [x \in Paths |-> 0],
     level_map |-> [x \in Paths |-> 0]]

\* map[start_code..=end_code].fill(v)
FillSlice(map, start_code, end_code, v) ==
    [x \in Paths |-> IF x >= start_code /\ x <= end_code THEN v ELSE map[x]]

\* fill_huffman_symbol_and_level_maps: the codes are assigned as in
\* build_huffman_code_map, and each fills the slice start_code..=end_code.
\* MAX_CODE_LEN - level and level - last_level are checked subtractions and
\* the slice must lie inside the maps.
RECURSIVE FillMaps(_, _, _, _, _)
FillMaps(dec, i, code, last_level, panic) ==
    IF panic \/ i > Len(dec.table) THEN [dec |-> dec, panic |-> panic]
    ELSE LET symbol == dec.table[i].symbol
             level == dec.table[i].level
             c == IF last_level # level
                  THEN IF last_level # 0
                       THEN (code + 1) * Pow2(level - last_level)
                       ELSE code
                  ELSE code + 1
             start_code == c * Pow2(MAX_CODE_LEN - level)
             end_code == start_code + Pow2(MAX_CODE_LEN - level) - 1
             bad == \/ level > MAX_CODE_LEN
                    \/ (last_level # 0 /\ level < last_level)
                    \/ end_code >= Pow2(MAX_CODE_LEN)
         IN  IF bad THEN [dec |-> dec, panic |-> TRUE]
             ELSE FillMaps(
                    [dec EXCEPT
                       !.symbol_map = FillSlice(@, start_code, end_code, symbol),
                       !.level_map = FillSlice(@, start_code, end_code, level)],
                    i + 1, c, level, FALSE)

fill_huffman_symbol_and_level_maps(dec) == FillMaps(dec, 1, 0, 0, FALSE)

\* The loop of read_huffman_table: symbol in 9 bits, level - 1 in
\* bits_per_level bits; unwrap() of a None panics.
RECURSIVE ReadEntries(_, _, _, _)
ReadEntries(r, n, bits_per_level, t) ==
    IF n = 0 THEN [reader |-> r, table |-> t, panic |-> FALSE]
    ELSE LET a == read_bits_into_u32(r, HUFFMAN_MAX_SYMBOLS_SIZE)
             b == read_bits_into_u32(a.reader, bits_per_level)
         IN  IF ~a.val.some \/ ~b.val.some
             THEN [reader |-> b.reader, table |-> t, panic |-> TRUE]
             ELSE ReadEntries(b.reader, n - 1, bits_per_level,
                     Append(t, [symbol |-> ValOf(a.val.val),
                                level |-> ValOf(b.val.val) + 1]))

read_huffman_table(dec, r) ==
    LET a == read_bits_into_u32(r, HUFFMAN_MAX_SYMBOLS_SIZE)
        b == read_bits_into_u32(a.reader, 4)
    IN  IF ~a.val.some \/ ~b.val.some
        THEN [dec |-> dec, reader |-> b.reader, panic |-> TRUE]
        ELSE LET symbol_num == ValOf(a.val.val)
                 max_level == ValOf(b.val.val)
                 bits_per_level == Max(CeilLog2(max_level), 1)
                 e == ReadEntries(b.reader, symbol_num, bits_per_level, <<>>)
                 f == fill_huffman_symbol_and_level_maps(
                         [dec EXCEPT !.table = e.table])
             IN  IF e.panic THEN [dec |-> dec, reader |-> e.reader, panic |-> TRUE]
                 ELSE [dec |-> f.dec, reader |-> e.reader, panic |-> f.panic]

\* The loop of decode_chunk, which runs until bytes_to_decode symbols are
\* out: peek MAX_CODE_LEN bits (shifted up when fewer remain), look the path
\* up, push the symbol, drop `level` bits.
RECURSIVE DecodeSymbols(_, _, _, _)
DecodeSymbols(dec, r, bytes_to_decode, out) ==
    IF Len(out) >= bytes_to_decode
    THEN [reader |-> r, decoded |-> out, panic |-> FALSE]
    ELSE LET p == peek_bits_into_u32_with_shift(r, MAX_CODE_LEN)
         IN  IF ~p.val.some THEN [reader |-> r, decoded |-> out, panic |-> TRUE]
             ELSE LET path == ValOf(p.val.val)
                      e == empty_bits(r, dec.level_map[path])
                  IN  IF e.panic
                      THEN [reader |-> e.reader, decoded |-> out, panic |-> TRUE]
                      ELSE DecodeSymbols(dec, e.reader, bytes_to_decode,
                                         Append(out, dec.symbol_map[path]))

decode_chunk(dec, r) ==
    LET a == read_bits_into_u32(r, HUFFMAN_CHUNK_SIZE_BITS)
    IN  IF ~a.val.some THEN [reader |-> a.reader, decoded |-> <<>>, panic |-> TRUE,
                             codes_start |-> a.reader]
        ELSE [codes_start |-> a.reader] @@
             DecodeSymbols(dec, a.reader, ValOf(a.val.val), <<>>)

\* symbols_to_bytes asserts every symbol is a byte.
symbols_to_bytes(symbols) ==
    [bytes |-> symbols,
     panic |-> \E i \in 1..Len(symbols) : symbols[i] > 255]

(***************************************************************************)
(* SpecBit: a fresh writer takes up to MaxWrites writes, get_bytes() hands *)
(* the bytes to a reader, and the reader reads the same widths in order    *)
(* (tests::bit_reader_writer_test).                                        *)
(***************************************************************************)
BitWidths == {1, 7, 8, 9, 31, 32}

\* Two u32 values below 2^n: all ones, and the top and the second-lowest bit.
BitValues(n) ==
    { Zeros(32 - n) \o [i \in 1..n |-> 1],
      Zeros(32 - n) \o [i \in 1..n |-> IF i = 1 \/ i = n - 1 THEN 1 ELSE 0] }

Idle == [idle |-> TRUE]

InitBit ==
    /\ overflow_checks \in BOOLEAN
    /\ pc = "write"
    /\ input = <<>>
    /\ writer = NewWriter
    /\ reader = Idle
    /\ encoder = Idle
    /\ decoder = Idle
    /\ data = <<>>
    /\ decoded = <<>>
    /\ local = Idle
    /\ hist = <<>>

BitWrite ==
    /\ pc = "write"
    /\ Len(input) < MaxWrites
    /\ \E n \in BitWidths : \E v \in BitValues(n) :
          LET w == write_bits_u32(writer, v, n)
          IN  /\ input' = Append(input, [data |-> v, bit_num |-> n])
              /\ writer' = w
              /\ pc' = IF w.panic THEN "panic" ELSE "write"
    /\ UNCHANGED <<overflow_checks, reader, encoder, decoder, data, decoded, local, hist>>

BitGetBytes ==
    /\ pc = "write"
    /\ data' = get_bytes(writer)
    /\ reader' = NewReader(data')
    /\ pc' = "read"
    /\ UNCHANGED <<overflow_checks, input, writer, encoder, decoder, decoded, local, hist>>

BitRead ==
    /\ pc = "read"
    /\ Len(decoded) < Len(input)
    /\ LET res == read_bits_into_u32(reader, input[Len(decoded) + 1].bit_num)
       IN  /\ reader' = res.reader
           /\ decoded' = Append(decoded, res.val)
           /\ pc' = IF res.panic THEN "panic" ELSE "read"
    /\ UNCHANGED <<overflow_checks, input, writer, encoder, decoder, data, local, hist>>

NextBit == BitWrite \/ BitGetBytes \/ BitRead

SpecBit == InitBit /\ [][NextBit]_vars

\* C4 (BitIO round trip): after any sequence of writes (v_i, n_i) with
\* 0 < n_i <= 32 and v_i < 2^n_i on a fresh writer, the i-th
\* read_bits_into_u32(n_i) on a reader over get_bytes() returns Some(v_i);
\* no call panics.
C4_BitRoundTrip ==
    /\ pc # "panic"
    /\ pc = "read" =>
          \A i \in 1..Len(decoded) : decoded[i] = Some(input[i].data)

\* All the writes were read back, across more than one refill of the reader
\* and with a write that straddled a byte boundary.
C4_Witness ==
    /\ pc = "read"
    /\ Len(input) = MaxWrites
    /\ Len(decoded) = Len(input)
    /\ Len(data) > 8
    /\ \E i \in 1..Len(input) : input[i].bit_num = 32 /\ input[i].data[1] = 1
    /\ \E i \in 1..Len(input) : input[i].bit_num = 7

(***************************************************************************)
(* SpecHuff: encode_all_bytes(bytes, chunk_size) into a fresh writer,      *)
(* get_bytes(), decode_all_bytes over a reader (tests::huffman_test).      *)
(* One action per iteration of encode_all's loop and of decode_all's loop. *)
(***************************************************************************)
HuffBytes == {65, 66, 255}

RECURSIVE SeqsUpTo(_, _)
SeqsUpTo(S, n) ==
    IF n = 0 THEN {<<>>}
    ELSE LET shorter == SeqsUpTo(S, n - 1)
         IN  shorter \cup {Append(q, x) : q \in {t \in shorter : Len(t) = n - 1}, x \in S}

\* "AAAAAABBBBCCCD"
HuffScenario == <<65, 65, 65, 65, 65, 65, 66, 66, 66, 66, 67, 67, 67, 68>>

\* One byte repeated, longer than the 64-bit buffers of the writer and reader.
HuffRun == [i \in 1..MaxRun |-> 66]

HuffInputs == SeqsUpTo(HuffBytes, MaxHuffLen) \cup {HuffScenario, HuffRun}
ChunkSizes == (1..MaxChunk) \cup {HUFFMAN_DEFAULT_CHUNK_SIZE}

bytes_to_symbols(bytes) == [i \in 1..Len(bytes) |-> bytes[i]]

InitHuff ==
    /\ overflow_checks = TRUE
    /\ pc = "start"
    /\ input \in {[bytes |-> b, chunk_size |-> k] : b \in HuffInputs, k \in ChunkSizes}
    /\ writer = NewWriter
    /\ reader = Idle
    /\ encoder = NewEncoder
    /\ decoder = NewDecoder
    /\ data = <<>>
    /\ decoded = <<>>
    /\ local = Idle
    /\ hist = [enc |-> <<>>, dec |-> <<>>]

\* encode_all_bytes, then encode_all up to its loop: chunk_size is cut to the
\* input's length and (0..len).step_by(chunk_size) asserts the step is not 0.
HuffEncodeAll ==
    /\ pc = "start"
    /\ LET symbols == bytes_to_symbols(input.bytes)
           chunk_size == Min(input.chunk_size, Len(symbols))
       IN  /\ local' = [symbols |-> symbols, chunk_size |-> chunk_size, i |-> 0]
           /\ pc' = IF chunk_size = 0 THEN "panic" ELSE "encode"
    /\ UNCHANGED <<overflow_checks, input, writer, reader, encoder, decoder,
                   data, decoded, hist>>

\* One iteration of encode_all's loop: encode_chunk on bytes[i .. i+chunk_size].
HuffEncodeChunk ==
    /\ pc = "encode"
    /\ local.i < Len(local.symbols)
    /\ \E chunk \in {SubSeq(local.symbols, local.i + 1,
                            Min(Len(local.symbols), local.i + local.chunk_size))} :
       \E e \in {encode_chunk(encoder, chunk, writer)} :
           /\ encoder' = e.enc
           /\ writer' = e.writer
           /\ hist' = [hist EXCEPT !.enc = Append(@,
                         [chunk |-> chunk,
                          sorted |-> e.sorted,
                          table |-> e.enc.table,
                          codes |-> [i \in 1..Len(e.enc.table) |->
                                       e.enc.code_map[e.enc.table[i].symbol]],
                          start |-> total_bits_written(writer),
                          table_end |-> total_bits_written(e.table_end),
                          end |-> total_bits_written(e.writer)])]
           /\ pc' = IF e.writer.panic THEN "panic" ELSE "encode"
    /\ local' = [local EXCEPT !.i = @ + local.chunk_size]
    /\ UNCHANGED <<overflow_checks, input, reader, decoder, data, decoded>>

\* The loop is over: get_bytes(), and a reader and a decoder over them.
HuffGetBytes ==
    /\ pc = "encode"
    /\ local.i >= Len(local.symbols)
    /\ data' = get_bytes(writer)
    /\ reader' = NewReader(data')
    /\ local' = [symbols |-> <<>>]
    /\ pc' = "decode"
    /\ UNCHANGED <<overflow_checks, input, writer, encoder, decoder, decoded, hist>>

\* One iteration of decode_all's loop: read_huffman_table, decode_chunk.
HuffDecodeChunk ==
    /\ pc = "decode"
    /\ reader.remaining_bits > HUFFMAN_CHUNK_SIZE_BITS
    /\ \E t \in {read_huffman_table(decoder, reader)} :
       \E c \in {decode_chunk(t.dec, t.reader)} :
       \E failed \in {t.panic \/ c.panic} :
           /\ decoder' = t.dec
           /\ reader' = IF t.panic THEN t.reader ELSE c.reader
           /\ local' = [symbols |-> IF failed THEN local.symbols
                                    ELSE local.symbols \o c.decoded]
           /\ hist' = [hist EXCEPT !.dec = Append(@,
                         [table |-> t.dec.table,
                          symbols |-> IF failed THEN <<>> ELSE c.decoded,
                          code_bits |-> IF failed THEN 0
                                        ELSE c.codes_start.remaining_bits
                                             - c.reader.remaining_bits])]
           /\ pc' = IF failed THEN "panic" ELSE "decode"
    /\ UNCHANGED <<overflow_checks, input, writer, encoder, data, decoded>>

\* Fewer than 33 bits remain: decode_all returns, symbols_to_bytes converts.
HuffDecodeDone ==
    /\ pc = "decode"
    /\ reader.remaining_bits <= HUFFMAN_CHUNK_SIZE_BITS
    /\ \E b \in {symbols_to_bytes(local.symbols)} :
           /\ decoded' = b.bytes
           /\ pc' = IF b.panic THEN "panic" ELSE "done"
    /\ UNCHANGED <<overflow_checks, input, writer, reader, encoder, decoder,
                   data, local, hist>>

NextHuff ==
    \/ HuffEncodeAll
    \/ HuffEncodeChunk
    \/ HuffGetBytes
    \/ HuffDecodeChunk
    \/ HuffDecodeDone

SpecHuff == InitHuff /\ [][NextHuff]_vars

\* C1 (Huffman round trip): for every non-empty byte sequence b and chunk
\* size k >= 1, encode_all_bytes(b, k), get_bytes() and decode_all_bytes
\* complete without a panic and return exactly b.
C1_HuffmanRoundTrip ==
    Len(input.bytes) > 0 =>
        /\ pc # "panic"
        /\ (pc = "done" => decoded = input.bytes)

\* A round trip of several chunks with different tables has completed.
C1_Witness ==
    /\ pc = "done"
    /\ Len(hist.enc) >= 2
    /\ hist.enc[1].table # hist.enc[2].table
    /\ Len(hist.enc[2].table) >= 2
    /\ decoded = input.bytes

\* Does chunk c consist of copies of one symbol?
OneSymbol(c) == Len(c) >= 1 /\ \A j \in 1..Len(c) : c[j] = c[1]

\* The bits of a chunk's codes: what encode_chunk wrote after the table,
\* less the 32 bits of the symbol count.
Payload(rec) == rec.end - rec.table_end - HUFFMAN_CHUNK_SIZE_BITS

\* C5 (empty input, Huffman part): encode_all_bytes on the empty byte
\* sequence completes without a panic, writes no chunk, and decoding what it
\* wrote gives the empty sequence.
C5_EmptyInput ==
    Len(input.bytes) = 0 =>
        /\ pc # "panic"
        /\ hist.enc = <<>>
        /\ (pc = "done" => decoded = <<>>)

\* C7 (single-symbol chunk): a chunk of n >= 1 copies of one byte gets a
\* table of exactly one entry, of level 1 and code 0; its codes take exactly
\* n bits; the decoder consumes n bits for it and returns the n bytes.
C7_SingleSymbol ==
    \A i \in 1..Len(hist.enc) :
        OneSymbol(hist.enc[i].chunk) =>
            /\ pc # "panic"
            /\ hist.enc[i].table = << [symbol |-> hist.enc[i].chunk[1], level |-> 1] >>
            /\ hist.enc[i].codes = << Some(<<0, 1>>) >>
            /\ Payload(hist.enc[i]) = Len(hist.enc[i].chunk)
            /\ i <= Len(hist.dec) =>
                    /\ hist.dec[i].symbols = hist.enc[i].chunk
                    /\ hist.dec[i].code_bits = Len(hist.enc[i].chunk)

\* The run of MaxRun equal bytes has been encoded as one chunk and decoded.
C7_Witness ==
    /\ pc = "done"
    /\ input.bytes = HuffRun
    /\ Len(hist.enc) = 1
    /\ Len(hist.dec) = 1
    /\ hist.dec[1].code_bits = MaxRun
    /\ decoded = HuffRun

\* The level the table of record rec gives to symbol s (0: not in the table).
LevelOf(rec, s) ==
    IF \E i \in 1..Len(rec.table) : rec.table[i].symbol = s
    THEN rec.table[CHOOSE i \in 1..Len(rec.table) : rec.table[i].symbol = s].level
    ELSE 0

\* C9 (scenario): the chunk "AAAAAABBBBCCCD" is encoded with the lengths
\* A=1, B=2, C=3, D=3 and its codes take 26 bits; and whenever no depth of
\* the tree exceeds MAX_CODE_LEN, the limiting leaves the depths unchanged.
C9_Scenario ==
    \A i \in 1..Len(hist.enc) :
        /\ hist.enc[i].chunk = HuffScenario =>
                /\ LevelOf(hist.enc[i], 65) = 1
                /\ LevelOf(hist.enc[i], 66) = 2
                /\ LevelOf(hist.enc[i], 67) = 3
                /\ LevelOf(hist.enc[i], 68) = 3
                /\ Payload(hist.enc[i]) = 26
        /\ MaxLevel(hist.enc[i].sorted) <= MAX_CODE_LEN =>
                hist.enc[i].table = hist.enc[i].sorted

(***************************************************************************)
(* SpecTable: build_huffman_table on an encoder whose freq_table holds a   *)
(* histogram, then write_huffman_table into a fresh writer and             *)
(* read_huffman_table from its bytes.  The histograms are all those of     *)
(* the symbols "A" .. "D" with counts up to MaxFreq, and Fibonacci and     *)
(* doubling counts, whose trees are deeper than MAX_CODE_LEN.              *)
(***************************************************************************)
MaxFreq == 3
MinDeep == 12
MaxDeep == 16

\* "A" .. "D"
TableSyms == {65, 66, 67, 68}

RECURSIVE Fib(_)
Fib(i) == IF i <= 2 THEN 1 ELSE Fib(i - 1) + Fib(i - 2)

FibHist(n) == [s \in 0..(n - 1) |-> Fib(s + 1)]
DoublingHist(n) == [s \in 0..(n - 1) |-> IF s = 0 THEN 1 ELSE Pow2(s - 1)]

TableHists ==
    [TableSyms -> 0..MaxFreq]
    \cup {FibHist(n) : n \in MinDeep..MaxDeep}
    \cup {DoublingHist(n) : n \in MinDeep..MaxDeep}

\* freq_table after build_frequency_table on a chunk with h[s] copies of
\* each symbol s of h.
FreqTableOf(h) == [s \in Symbols |-> IF s \in DOMAIN h THEN h[s] ELSE 0]

InitTable ==
    /\ overflow_checks = TRUE
    /\ pc = "start"
    /\ input \in {[freq |-> h] : h \in TableHists}
    /\ encoder = [NewEncoder EXCEPT !.freq_table = FreqTableOf(input.freq)]
    /\ writer = NewWriter
    /\ reader = Idle
    /\ decoder = NewDecoder
    /\ data = <<>>
    /\ decoded = <<>>
    /\ local = Idle
    /\ hist = Idle

\* build_huffman_table; hist keeps the table as sorted, before the limiting.
TableBuild ==
    /\ pc = "start"
    /\ \E b \in {build_huffman_table(encoder)} :
           /\ encoder' = b.enc
           /\ hist' = [sorted |-> b.sorted]
           /\ pc' = IF b.panic THEN "panic" ELSE "built"
    /\ UNCHANGED <<overflow_checks, input, writer, reader, decoder, data,
                   decoded, local>>

\* write_huffman_table, and get_bytes on the writer.
TableWrite ==
    /\ pc = "built"
    /\ \E w \in {write_huffman_table(encoder, writer)} :
           /\ writer' = w
           /\ data' = get_bytes(w)
           /\ local' = [table_bits |-> total_bits_written(w)]
           /\ pc' = IF w.panic THEN "panic" ELSE "written"
    /\ UNCHANGED <<overflow_checks, input, reader, encoder, decoder, decoded, hist>>

\* read_huffman_table by a decoder over the bytes.
TableRead ==
    /\ pc = "written"
    /\ \E t \in {read_huffman_table(decoder, NewReader(data))} :
           /\ decoder' = t.dec
           /\ reader' = t.reader
           /\ pc' = IF t.panic THEN "panic" ELSE "read"
    /\ UNCHANGED <<overflow_checks, input, writer, encoder, data, decoded,
                   local, hist>>

NextTable ==
    \/ TableBuild
    \/ TableWrite
    \/ TableRead

SpecTable == InitTable /\ [][NextTable]_vars

\* Does the histogram of the input count at least one symbol?
NonZeroHist == \E s \in DOMAIN input.freq : input.freq[s] > 0

\* The sum over the entries of t of 2^(MAX_CODE_LEN - level).
RECURSIVE KraftSum(_)
KraftSum(t) ==
    IF t = <<>> THEN 0 ELSE Pow2(MAX_CODE_LEN - Head(t).level) + KraftSum(Tail(t))

\* C8 (Kraft validity): for every histogram with a non-zero count,
\* build_huffman_table does not panic, and after the limiting every level is
\* at most MAX_CODE_LEN and the sum of 2^(MAX_CODE_LEN - level) is at most
\* 2^MAX_CODE_LEN.
C8_Kraft ==
    (NonZeroHist /\ pc # "start") =>
        /\ pc # "panic"
        /\ \A i \in 1..Len(encoder.table) :
               /\ encoder.table[i].level >= 1
               /\ encoder.table[i].level <= MAX_CODE_LEN
        /\ KraftSum(encoder.table) <= Pow2(MAX_CODE_LEN)

\* A tree deeper than MAX_CODE_LEN has been limited: levels were cut to
\* MAX_CODE_LEN and others were raised.
C8_Witness ==
    /\ pc = "built"
    /\ MaxLevel(hist.sorted) > MAX_CODE_LEN
    /\ MaxLevel(encoder.table) = MAX_CODE_LEN
    /\ \E i \in 1..Len(encoder.table) :
           /\ hist.sorted[i].level < MAX_CODE_LEN
           /\ encoder.table[i].level > hist.sorted[i].level
    /\ KraftSum(encoder.table) <= Pow2(MAX_CODE_LEN)

\* The code and the length the code map gives to symbol s.
CodeOf(s) == encoder.code_map[s].val[1]
LenOf(s) == encoder.code_map[s].val[2]

\* The symbols that have a code, and those of length l.
Coded == {s \in Symbols : encoder.code_map[s].some}
CodedAt(l) == {s \in Coded : LenOf(s) = l}
SetMax(S) == CHOOSE x \in S : \A y \in S : x >= y

C30_LimitKeepsOrder ==
    (NonZeroHist /\ pc # "start") =>
        /\ pc # "panic"
        /\ \A i \in 1..Len(encoder.table) :
               /\ encoder.table[i].level >= 1
               /\ encoder.table[i].level <= MAX_CODE_LEN
               /\ i > 1 => encoder.table[i].level >= encoder.table[i - 1].level
        /\ ~LevelsUnderflow(encoder.table)
        /\ \A s \in Coded : CodeOf(s) < Pow2(LenOf(s))

\* A tree deeper than MAX_CODE_LEN went through all three loops: an entry
\* was clamped, and another was deepened to MAX_CODE_LEN from the end and
\* then lowered again by the redistribution.
C30_Witness ==
    /\ pc = "built"
    /\ MaxLevel(hist.sorted) > MAX_CODE_LEN
    /\ \E i \in 1..Len(encoder.table) :
           /\ hist.sorted[i].level > MAX_CODE_LEN
           /\ encoder.table[i].level = MAX_CODE_LEN
    /\ \E i \in 1..Len(encoder.table) :
           /\ encoder.table[i].level > hist.sorted[i].level
           /\ encoder.table[i].level < MAX_CODE_LEN
    /\ \A i \in 2..Len(encoder.table) :
           encoder.table[i].level >= encoder.table[i - 1].level

(***************************************************************************)
(* SpecHeader: write_huffman_table and read_huffman_table on an encoder    *)
(* that holds a table and its code map: every table of up to MaxEntries    *)
(* entries in ascending order of level that fits the code space, and the   *)
(* table of a chunk that holds each of the HUFFMAN_MAX_SYMBOLS symbols     *)
(* once (all levels 9, the last entry deepened to 10 by k_max).            *)
(***************************************************************************)
MaxEntries == 3

HeaderSyms == {0, 65, 511}
HeaderLevels == {1, 2, 3, 9, 12}

FullTable ==
    [i \in 1..HUFFMAN_MAX_SYMBOLS |->
        [symbol |-> i - 1, level |-> IF i = HUFFMAN_MAX_SYMBOLS THEN 10 ELSE 9]]

HeaderTables ==
    {t \in UNION {[1..n -> [symbol : HeaderSyms, level : HeaderLevels]] :
                     n \in 1..MaxEntries} :
        /\ \A i \in 2..Len(t) : t[i].level >= t[i - 1].level
        /\ \A i \in 1..Len(t) : \A j \in 1..Len(t) :
               i # j => t[i].symbol # t[j].symbol
        /\ KraftSum(t) <= K_MAX}
    \cup {FullTable}

InitHeader ==
    /\ overflow_checks = TRUE
    /\ pc = "built"
    /\ input \in {[table |-> t] : t \in HeaderTables}
    /\ encoder = [NewEncoder EXCEPT
                    !.table = input.table,
                    !.code_map = build_huffman_code_map(input.table)]
    /\ writer = NewWriter
    /\ reader = Idle
    /\ decoder = NewDecoder
    /\ data = <<>>
    /\ decoded = <<>>
    /\ local = Idle
    /\ hist = Idle

NextHeader ==
    \/ TableWrite
    \/ TableRead

SpecHeader == InitHeader /\ [][NextHeader]_vars

\* The MAX_CODE_LEN-bit indices whose top LenOf(s) bits are the code of s:
\* the code followed by zeros up to the code followed by ones.
IndexLo(s) == CodeOf(s) * Pow2(MAX_CODE_LEN - LenOf(s))
IndexHi(s) == (CodeOf(s) + 1) * Pow2(MAX_CODE_LEN - LenOf(s)) - 1
IndicesOf(s) == IndexLo(s)..IndexHi(s)

\* C26 (fast decode table agrees with the encoder): for every table the
\* encoder builds and serializes, after read_huffman_table each symbol s
\* with encoder code (c, l) has symbol_map[x] = s and level_map[x] = l at
\* every MAX_CODE_LEN-bit index x whose top l bits are c; every code fits in
\* its l bits and the index ranges of different symbols are disjoint.
C26_DecodeTable ==
    pc \in {"written", "read", "panic"} =>
        /\ pc # "panic"
        /\ \A s \in Coded :
               /\ CodeOf(s) < Pow2(LenOf(s))
               /\ LenOf(s) >= 1
               /\ LenOf(s) <= MAX_CODE_LEN
               /\ \A u \in Coded :
                      u # s => (IndexHi(s) < IndexLo(u) \/ IndexHi(u) < IndexLo(s))
        /\ pc = "read" =>
               \A s \in Coded : \A x \in IndicesOf(s) :
                   /\ decoder.symbol_map[x] = s
                   /\ decoder.level_map[x] = LenOf(s)

\* C29 (Huffman table header survives serialization): for every table of N
\* entries with 1 <= N <= HUFFMAN_MAX_SYMBOLS and levels up to 12,
\* read_huffman_table on the output of write_huffman_table does not panic
\* and recovers the same N entries, each with its symbol and its level.
C29_HeaderRoundTrip ==
    pc \in {"written", "read", "panic"} =>
        /\ pc # "panic"
        /\ pc = "read" => decoder.table = encoder.table

(***************************************************************************)
(* LZW (lzw.rs), bit-packed: compress_lzw and decompress_lzw.              *)
(***************************************************************************)
MIN_CODE_LEN == 9
LZW_MAX_CODE_LEN == 12
MAX_CODE == 4096
CLEAR_CODE == 256
EOD_CODE == 257
START_CODE == 258

\* x <<= 1 on a u16.
ShlU16(x) == (2 * x) % 65536

\* The encoder's table: table[code].next[byte], kept as the function from
\* the pairs <<code, byte>> that are Some(next) to next.
NoEntries == [p \in {} |-> 0]

TableNext(table, code, byte) ==
    IF <<code, byte>> \in DOMAIN table THEN Some(table[<<code, byte>>]) ELSE None

\* The locals of compress_lzw before its loop; bytes[0] is Rust's bytes[0].
LzwEncoderLocals(bytes) ==
    [code_len |-> MIN_CODE_LEN, curr_max_code |-> Pow2(MIN_CODE_LEN),
     table |-> NoEntries, code |-> bytes[1], next_code |-> START_CODE]

\* One iteration of the loop of compress_lzw over &bytes[1..].  e holds the
\* locals and the writer, log the <<code, width>> pairs written so far.
LzwEncodeByte(e, byte) ==
    LET next_option == TableNext(e.table, e.code, byte)
    IN  IF next_option.some THEN [e EXCEPT !.code = next_option.val]
        ELSE LET w1 == write_bits_u16(e.writer, U16(e.code), e.code_len)
                 next_code == e.next_code + 1
                 widen == next_code = e.curr_max_code
                 code_len == IF widen THEN e.code_len + 1 ELSE e.code_len
                 clear == widen /\ code_len = LZW_MAX_CODE_LEN
             IN  IF clear
                 THEN [e EXCEPT
                        !.writer = write_bits_u16(w1, U16(CLEAR_CODE), code_len),
                        !.log = @ \o << <<e.code, e.code_len>>,
                                        <<CLEAR_CODE, code_len>> >>,
                        !.code = byte,
                        !.code_len = MIN_CODE_LEN,
                        !.curr_max_code = Pow2(MIN_CODE_LEN),
                        !.next_code = START_CODE,
                        !.table = NoEntries]
                 ELSE [e EXCEPT
                        !.writer = w1,
                        !.log = Append(@, <<e.code, e.code_len>>),
                        !.table = (<<e.code, byte>> :> e.next_code) @@ @,
                        !.code = byte,
                        !.next_code = next_code,
                        !.code_len = code_len,
                        !.curr_max_code =
                            IF widen THEN ShlU16(@) ELSE @]

\* After the loop: the pending code and EOD_CODE, both code_len wide.
LzwEncodeEnd(e) ==
    [e EXCEPT
       !.writer = write_bits_u16(
                     write_bits_u16(e.writer, U16(e.code), e.code_len),
                     U16(EOD_CODE), e.code_len),
       !.log = @ \o << <<e.code, e.code_len>>, <<EOD_CODE, e.code_len>> >>]

\* new_lzw_decompression_table: MAX_CODE entries, entry i < 256 has byte i.
Codes == 0..(MAX_CODE - 1)

new_lzw_decompression_table ==
    [c \in Codes |-> [prev |-> 0, back |-> 0, byte |-> IF c <= 255 THEN c ELSE 0]]

\* The same locals with next_code one past START_CODE.
LocalsOnePast ==
    [code_len |-> MIN_CODE_LEN, curr_max_code |-> Pow2(MIN_CODE_LEN),
     table |-> new_lzw_decompression_table, next_code |-> START_CODE + 1]

\* The locals of decompress_lzw before its loop.
LzwDecoderLocals ==
    [code_len |-> MIN_CODE_LEN, curr_max_code |-> Pow2(MIN_CODE_LEN),
     table |-> new_lzw_decompression_table, next_code |-> START_CODE]

\* while curr >= 256: follow prev, leaving a back pointer at each step.
RECURSIVE WalkToFirst(_, _)
WalkToFirst(table, curr) ==
    IF curr >= 256
    THEN LET tmp == table[curr].prev
         IN  WalkToFirst([table EXCEPT ![tmp].back = curr], tmp)
    ELSE [table |-> table, curr |-> curr]

\* while table[curr].back > 0: push the byte, follow and clear back.
RECURSIVE WalkBack(_, _, _)
WalkBack(table, curr, out) ==
    IF table[curr].back > 0
    THEN WalkBack([table EXCEPT ![curr].back = 0], table[curr].back,
                  Append(out, table[curr].byte))
    ELSE [table |-> table, curr |-> curr, out |-> out]

\* The entry before next_code left without its last byte.
LastByteUnset(table, next_code, curr) == table

\* table[(next_code as usize) - 1].byte = curr as u8;
SetLastByte(table, next_code, curr) ==
    [table EXCEPT ![next_code - 1].byte = curr]

\* The check on a code in place of `code >= next_code`, one code earlier.
BadCompressionAtLast(code, next_code) == code >= next_code - 1

\* if code >= next_code { panic!("Bad compression with symbol {code}"); }
BadCompression(code, next_code) == code >= next_code

\* One iteration of the loop of decompress_lzw on the locals d, the reader r
\* and decoded_bytes out.  status: "loop" (continue the loop), "break" (EOD)
\* or "panic"; why tells the panics apart: "unwrap" (unwrap of None, or the
\* assert of read_bits_into_u16), "corrupt" ("Bad compression") and "index"
\* (table[next_code] outside the table).
LzwDecodeCode(d, r, out) ==
    LET rd == read_bits_into_u16(r, d.code_len)
        Fail == [dec |-> d, reader |-> rd.reader, out |-> out,
                 status |-> "panic", read |-> <<>>, why |-> "unwrap"]
    IN  IF rd.panic \/ ~rd.val.some THEN Fail
        ELSE
        LET code == ValOf(rd.val.val)
            read == << <<code, Min(d.code_len, r.remaining_bits)>> >>
        IN  IF code = EOD_CODE
            THEN [dec |-> d, reader |-> rd.reader, out |-> out,
                  status |-> "break", read |-> read, why |-> "none"]
            ELSE IF code = CLEAR_CODE
            THEN [dec |-> LzwDecoderLocals, reader |-> rd.reader, out |-> out,
                  status |-> "loop", read |-> read, why |-> "none"]
            ELSE IF BadCompression(code, d.next_code)
            THEN [Fail EXCEPT !.read = read, !.why = "corrupt"]
            ELSE IF d.next_code >= MAX_CODE
            THEN [Fail EXCEPT !.read = read, !.why = "index"]
            ELSE
            LET t1 == [d.table EXCEPT ![d.next_code].prev = code]
                a == WalkToFirst(t1, code)
                t2 == SetLastByte(a.table, d.next_code, a.curr)
                b == WalkBack(t2, a.curr, out)
                next_code == d.next_code + 1
                widen == next_code >= d.curr_max_code
            IN  [dec |-> [code_len |-> IF widen THEN d.code_len + 1 ELSE d.code_len,
                          curr_max_code |-> IF widen THEN ShlU16(d.curr_max_code)
                                            ELSE d.curr_max_code,
                          table |-> b.table,
                          next_code |-> next_code],
                 reader |-> rd.reader,
                 out |-> Append(b.out, b.table[b.curr].byte),
                 status |-> "loop",
                 read |-> read,
                 why |-> "none"]

(***************************************************************************)
(* SpecLZW: compress_lzw(bytes), then decompress_lzw on what it returned   *)
(* (tests::lzw_test).  One action per iteration of either loop.  The       *)
(* inputs are all strings over two bytes up to MaxLzwLen bytes and ramps,  *)
(* in which no pair of neighbours repeats, so that every byte emits a code.*)
(***************************************************************************)
MaxLzwLen == 5

LzwBytes == {97, 98}

\* Byte i (from 0) of the ramp: block j = i \div 256 steps by 2j + 1 mod 256.
RampByte(i) == ((i % 256) * (2 * (i \div 256) + 1)) % 256
Ramp(n) == [i \in 1..n |-> RampByte(i - 1)]

\* 254 codes bring the decoder's next_code to 512 = 2^9.
RampLens == {253, 254, 255}

\* "abababab": its fourth code is the entry made at the third emission.
AbRun == [i \in 1..8 |-> IF i % 2 = 1 THEN 97 ELSE 98]

LzwInputs ==
    SeqsUpTo(LzwBytes, MaxLzwLen) \cup {Ramp(n) : n \in RampLens} \cup {AbRun}

InitLZW ==
    /\ overflow_checks = TRUE
    /\ pc = "start"
    /\ input \in {[bytes |-> b] : b \in LzwInputs}
    /\ writer = NewWriter
    /\ reader = Idle
    /\ encoder = Idle
    /\ decoder = Idle
    /\ data = <<>>
    /\ decoded = <<>>
    /\ local = Idle
    /\ hist = [written |-> <<>>, read |-> <<>>, why |-> "none"]

\* compress_lzw up to its loop: bytes[0] is out of range on an empty slice.
LzwStart ==
    /\ pc = "start"
    /\ IF Len(input.bytes) = 0
       THEN /\ pc' = "panic"
            /\ UNCHANGED <<encoder, local>>
       ELSE /\ pc' = "compress"
            /\ encoder' = LzwEncoderLocals(input.bytes)
            /\ local' = [i |-> 2]
    /\ UNCHANGED <<overflow_checks, input, writer, reader, decoder, data,
                   decoded, hist>>

\* One iteration of `for byte in &bytes[1..]`.
LzwCompressByte ==
    /\ pc = "compress"
    /\ local.i <= Len(input.bytes)
    /\ \E e \in {LzwEncodeByte(encoder @@ [writer |-> writer, log |-> hist.written],
                               input.bytes[local.i])} :
           /\ encoder' = [f \in DOMAIN encoder |-> e[f]]
           /\ writer' = e.writer
           /\ hist' = [hist EXCEPT !.written = e.log]
           /\ pc' = IF e.writer.panic THEN "panic" ELSE "compress"
    /\ local' = [i |-> local.i + 1]
    /\ UNCHANGED <<overflow_checks, input, reader, decoder, data, decoded>>

\* The loop is over: the last code, EOD_CODE, get_bytes(); decompress_lzw
\* starts on the bytes.
LzwCompressEnd ==
    /\ pc = "compress"
    /\ local.i > Len(input.bytes)
    /\ \E e \in {LzwEncodeEnd(encoder @@ [writer |-> writer, log |-> hist.written])} :
           /\ writer' = e.writer
           /\ hist' = [hist EXCEPT !.written = e.log]
           /\ data' = get_bytes(e.writer)
           /\ reader' = NewReader(get_bytes(e.writer))
           /\ pc' = IF e.writer.panic THEN "panic" ELSE "decompress"
    /\ decoder' = LzwDecoderLocals
    /\ local' = Idle
    /\ UNCHANGED <<overflow_checks, input, encoder, decoded>>

\* One iteration of the loop of decompress_lzw.
LzwDecompressCode ==
    /\ pc = "decompress"
    /\ \E d \in {LzwDecodeCode(decoder, reader, decoded)} :
           /\ decoder' = d.dec
           /\ reader' = d.reader
           /\ decoded' = d.out
           /\ hist' = [hist EXCEPT !.read = @ \o d.read, !.why = d.why]
           /\ pc' = CASE d.status = "loop" -> "decompress"
                      [] d.status = "break" -> "done"
                      [] OTHER -> "panic"
    /\ UNCHANGED <<overflow_checks, input, writer, encoder, data, local>>

NextLZW ==
    \/ LzwStart
    \/ LzwCompressByte
    \/ LzwCompressEnd
    \/ LzwDecompressCode

SpecLZW == InitLZW /\ [][NextLZW]_vars

\* C2 (LZW round trip, bit-packed): for every non-empty byte sequence,
\* compress_lzw and decompress_lzw complete without a panic and the bytes
\* returned are the input, whatever the number of codes.
C2_LzwRoundTrip ==
    Len(input.bytes) > 0 =>
        /\ pc # "panic"
        /\ (pc = "done" => decoded = input.bytes)

(***************************************************************************)
(* LZW on code vectors: compress_lzw_as_bytes and decompress_lzw_as_bytes. *)
(* Both tables are HashMaps, here functions on their keys.                 *)
(***************************************************************************)
\* init_lzw_compression_table: vec![byte] -> byte.
init_lzw_compression_table == [k \in {<<b>> : b \in 0..255} |-> k[1]]

\* init_lzw_decompression_table: byte -> vec![byte].
init_lzw_decompression_table == [c \in 0..255 |-> <<c>>]

\* The locals of compress_lzw_as_bytes before its loop.
LzwVecEncoderLocals ==
    [codes |-> <<>>, map |-> init_lzw_compression_table,
     code |-> START_CODE, buffer |-> <<>>]

\* One iteration of the loop of compress_lzw_as_bytes.
LzwVecEncodeByte(e, byte) ==
    LET buffer_new == Append(e.buffer, byte)
    IN  IF buffer_new \in DOMAIN e.map THEN [e EXCEPT !.buffer = buffer_new]
        ELSE IF e.code + 1 >= MAX_CODE
        THEN [codes |-> e.codes \o <<e.map[e.buffer], CLEAR_CODE>>,
              map |-> init_lzw_compression_table,
              code |-> START_CODE,
              buffer |-> <<byte>>]
        ELSE [codes |-> Append(e.codes, e.map[e.buffer]),
              map |-> (buffer_new :> e.code) @@ e.map,
              code |-> e.code + 1,
              buffer |-> <<byte>>]

\* After the loop: the code of a non-empty buffer, then EOD_CODE.
LzwVecEncodeEnd(e) ==
    (IF e.buffer # <<>> THEN Append(e.codes, e.map[e.buffer]) ELSE e.codes)
        \o <<EOD_CODE>>

\* The locals of decompress_lzw_as_bytes before its loop.
LzwVecDecoderLocals ==
    [code_len |-> MIN_CODE_LEN, curr_max_code |-> Pow2(MIN_CODE_LEN),
     table |-> init_lzw_decompression_table,
     prev |-> CLEAR_CODE, code |-> START_CODE, entry |-> <<>>]

\* The same arm with the table and the next code left as they were.
ClearKeepsTable(d) == [d EXCEPT !.prev = CLEAR_CODE]

\* The CLEAR_CODE arm: table, prev, code, code_len and curr_max_code start
\* over; entry stays.
LzwVecClear(d) == [LzwVecDecoderLocals EXCEPT !.entry = d.entry]

\* One iteration of `for i in codes` on the locals d and decoded_bytes out.
\* status: "loop", "break" (EOD_CODE) or "panic" (unwrap of None, "Bad
\* compression").
LzwVecDecodeCode(d, i, out) ==
    IF d.prev = CLEAR_CODE
    THEN IF i \in DOMAIN d.table
         THEN [dec |-> [d EXCEPT !.prev = i, !.entry = d.table[i]],
               out |-> out \o d.table[i], status |-> "loop"]
         ELSE [dec |-> [d EXCEPT !.prev = i], out |-> out, status |-> "panic"]
    ELSE IF i = CLEAR_CODE
    THEN [dec |-> LzwVecClear(d), out |-> out, status |-> "loop"]
    ELSE IF i = EOD_CODE
    THEN [dec |-> d, out |-> out, status |-> "break"]
    ELSE IF i \notin DOMAIN d.table /\ i # d.code
    THEN [dec |-> d, out |-> out, status |-> "panic"]
    ELSE
    LET entry == IF i \in DOMAIN d.table THEN d.table[i]
                 ELSE Append(d.table[d.prev], d.table[d.prev][1])
        code == d.code + 1
        widen == code = d.curr_max_code
    IN  [dec |-> [code_len |-> IF widen THEN d.code_len + 1 ELSE d.code_len,
                  curr_max_code |-> IF widen THEN ShlU16(d.curr_max_code)
                                    ELSE d.curr_max_code,
                  table |-> (d.code :> Append(d.table[d.prev], entry[1]))
                                @@ d.table,
                  prev |-> i,
                  code |-> code,
                  entry |-> entry],
         out |-> out \o entry,
         status |-> "loop"]

\* The iterations lo..hi of `for byte in bytes`, split in halves so that
\* the evaluation nests no deeper than the logarithm of the length.
RECURSIVE LzwVecEncodeRange(_, _, _, _)
LzwVecEncodeRange(e, bytes, lo, hi) ==
    IF lo > hi THEN e
    ELSE IF lo = hi THEN LzwVecEncodeByte(e, bytes[lo])
    ELSE LET mid == (lo + hi) \div 2
             left == LzwVecEncodeRange(e, bytes, lo, mid)
         IN  IF left.code >= START_CODE   \* always: settles the left half first
             THEN LzwVecEncodeRange(left, bytes, mid + 1, hi)
             ELSE left

compress_lzw_as_bytes(bytes) ==
    LzwVecEncodeEnd(LzwVecEncodeRange(LzwVecEncoderLocals, bytes, 1, Len(bytes)))

\* The iterations lo..hi of `for i in codes`; a break or a panic ends them.
RECURSIVE LzwVecDecodeRange(_, _, _, _)
LzwVecDecodeRange(s, codes, lo, hi) ==
    IF lo > hi \/ s.status # "loop" THEN s
    ELSE IF lo = hi THEN LzwVecDecodeCode(s.dec, codes[lo], s.out)
    ELSE LET mid == (lo + hi) \div 2
             left == LzwVecDecodeRange(s, codes, lo, mid)
         IN  IF left.status # "loop" THEN left
             ELSE LzwVecDecodeRange(left, codes, mid + 1, hi)

\* out: decoded_bytes; status "panic" when the call panicked.
decompress_lzw_as_bytes(codes) ==
    LzwVecDecodeRange([dec |-> LzwVecDecoderLocals, out |-> <<>>,
                       status |-> "loop"], codes, 1, Len(codes))

(***************************************************************************)
(* SpecLZWBytes: compress_lzw_as_bytes(bytes), then                        *)
(* decompress_lzw_as_bytes on the codes, as tests::lzw_as_bytes_test does. *)
(***************************************************************************)
\* With 3839 ramp bytes the encoder's code reaches MAX_CODE at the last one;
\* the run of equal bytes after them is coded by the restarted table.
ClearLen == 3839
LzwVecInputs ==
    SeqsUpTo(LzwBytes, MaxLzwLen)
        \cup {Ramp(ClearLen), Ramp(ClearLen) \o [i \in 1..MaxLzwLen |-> 97]}

InitLZWBytes ==
    /\ overflow_checks = TRUE
    /\ pc = "start"
    /\ input \in {[bytes |-> b] : b \in LzwVecInputs}
    /\ writer = Idle
    /\ reader = Idle
    /\ encoder = Idle
    /\ decoder = Idle
    /\ data = <<>>
    /\ decoded = <<>>
    /\ local = Idle
    /\ hist = Idle

\* let encoded_bytes = compress_lzw_as_bytes(&bytes);
LzwVecCompress ==
    /\ pc = "start"
    /\ data' = compress_lzw_as_bytes(input.bytes)
    /\ pc' = "decompress"
    /\ UNCHANGED <<overflow_checks, input, writer, reader, encoder, decoder,
                   decoded, local, hist>>

\* let decoded_bytes = decompress_lzw_as_bytes(&encoded_bytes);
LzwVecDecompress ==
    /\ pc = "decompress"
    /\ \E d \in {decompress_lzw_as_bytes(data)} :
           /\ decoded' = d.out
           /\ pc' = IF d.status = "panic" THEN "panic" ELSE "done"
    /\ UNCHANGED <<overflow_checks, input, writer, reader, encoder, decoder,
                   data, local, hist>>

NextLZWBytes ==
    \/ LzwVecCompress
    \/ LzwVecDecompress

SpecLZWBytes == InitLZWBytes /\ [][NextLZWBytes]_vars

\* C6 (LZW round trip on code vectors): for every non-empty byte sequence,
\* compress_lzw_as_bytes and decompress_lzw_as_bytes do not panic and the
\* bytes returned are the input, CLEAR_CODE pushed at code 4096 included.
C6_LzwVecRoundTrip ==
    Len(input.bytes) > 0 =>
        /\ pc # "panic"
        /\ (pc = "done" => decoded = input.bytes)

\* A round trip where the encoder pushed CLEAR_CODE and coded more after it.
C6_Witness ==
    /\ pc = "done"
    /\ \E k, m \in 1..Len(data) :
           data[k] = CLEAR_CODE /\ k < m /\ data[m] >= START_CODE
    /\ decoded = input.bytes
    /\ Len(input.bytes) > 0

(***************************************************************************)
(* LZ77 (lz77.rs).  Positions are the source's, counted from 0: byte p of  *)
(* a slice is element p + 1 of the sequence.                               *)
(***************************************************************************)
MAX_MATCH_NUM == 1

\* enum LZ77Data
Literal(val) == <<"Literal", val>>
Match(length, offset) == <<"Match", length, offset>>

\* LZ77MatchFinder::new; the two asserts are the panic flag.
NewMatchFinder(buffer, window_size, min_match_len, max_match_len) ==
    [buffer |-> buffer, window_size |-> window_size,
     min_match_len |-> min_match_len, max_match_len |-> max_match_len,
     head_map |-> << >>, next_map |-> << >>,
     panic |-> min_match_len = 0 \/ window_size = 0]

key_from_bytes(m, pos) ==
    <<m.buffer[pos + 1], m.buffer[pos + 2], m.buffer[pos + 3]>>

\* insert: the old head of the key, if any, becomes next_map[pos].
insert(m, pos) ==
    LET key == key_from_bytes(m, pos)
    IN  [m EXCEPT
            !.next_map = IF key \in DOMAIN m.head_map
                         THEN (pos :> m.head_map[key]) @@ m.next_map
                         ELSE m.next_map,
            !.head_map = (key :> pos) @@ m.head_map]

\* `self.max_match_len - 3` on usize.  Below zero it panics in a build with
\* overflow checks (MatchLenUnderflows) and wraps to more than any slice
\* holds otherwise, so that take() takes all there is.
MatchLenUnderflows(m) == m.max_match_len < 3

TakeLimit(m) ==
    IF MatchLenUnderflows(m) THEN Len(m.buffer) ELSE m.max_match_len - 3

\* The count of match_len from its n-th pair on: take(max_match_len - 3) of
\* buffer[source_pos..], zipped with buffer[match_pos..], while equal.
RECURSIVE MatchLenFrom(_, _, _, _)
MatchLenFrom(m, source_pos, match_pos, n) ==
    IF /\ n < TakeLimit(m)
       /\ source_pos + n < Len(m.buffer)
       /\ match_pos + n < Len(m.buffer)
       /\ m.buffer[source_pos + n + 1] = m.buffer[match_pos + n + 1]
    THEN MatchLenFrom(m, source_pos, match_pos, n + 1)
    ELSE n

\* match_len finding no equal byte after the key.
MatchLenZero(m, source_pos, match_pos) == 0

match_len(m, source_pos, match_pos) == MatchLenFrom(m, source_pos, match_pos, 0)

\* The `while let Some(next) = next_option` loop of find_match; f holds
\* next_option, match_num, length and offset.
RECURSIVE FindLoop(_, _, _, _)
FindLoop(m, pos, min_pos, f) ==
    IF f.next_option = None THEN f
    ELSE LET next == f.next_option.val
         IN  IF next < min_pos THEN f
             ELSE IF f.match_num + 1 > MAX_MATCH_NUM
             THEN [f EXCEPT !.match_num = @ + 1]
             ELSE LET len == match_len(m, pos + 3, next + 3) + 3
                      better == len > f.length
                  IN  FindLoop(m, pos, min_pos,
                          [next_option |-> IF next \in DOMAIN m.next_map
                                           THEN Some(m.next_map[next])
                                           ELSE None,
                           match_num |-> f.match_num + 1,
                           length |-> IF better THEN len ELSE f.length,
                           offset |-> IF better THEN pos - next ELSE f.offset])

\* find_match: the matcher after insert(pos) and the LZ77Data returned.
\* match_len was called if a length was found; its subtraction may panic.
find_match(m, pos) ==
    LET min_pos == IF m.window_size > pos THEN 0 ELSE pos - m.window_size
        key == key_from_bytes(m, pos)
        f == FindLoop(m, pos, min_pos,
                 [next_option |-> IF key \in DOMAIN m.head_map
                                  THEN Some(m.head_map[key]) ELSE None,
                  match_num |-> 0, length |-> 0, offset |-> 0])
    IN  [matcher |-> [insert(m, pos) EXCEPT
                         !.panic = @ \/ (/\ f.length > 0
                                         /\ MatchLenUnderflows(m)
                                         /\ overflow_checks)],
         d |-> IF f.length >= m.min_match_len /\ f.offset >= m.min_match_len
               THEN Match(f.length, f.offset)
               ELSE Literal(m.buffer[pos + 1])]

\* `for pos_to_add in (pos..).take(length).skip(1)`: it breaks at the first
\* position that has three bytes after it and inserts the others, whose
\* key_from_bytes slices past the end.
RECURSIVE InsertSkipped(_, _, _)
InsertSkipped(m, pos_to_add, end) ==
    IF pos_to_add >= end \/ m.panic THEN m
    ELSE IF pos_to_add + 3 <= Len(m.buffer) THEN m
    ELSE [m EXCEPT !.panic = TRUE]

\* for byte in &buffer[pos..] { data.push(LZ77Data::Literal(*byte)); }
TailLiterals(buffer, pos) ==
    [i \in 1..(Len(buffer) - pos) |-> Literal(buffer[pos + i])]

\* The Match arm of lz77_decompress with the bytes taken from what was
\* decoded before the match, none of the match's own.
CopyWithoutOverlap(decompressed, length, offset) ==
    LET start_pos == Len(decompressed) - offset
    IN  IF offset > Len(decompressed) THEN [out |-> decompressed, panic |-> TRUE]
        ELSE [out |-> decompressed \o
                        SubSeq(decompressed, start_pos + 1,
                               Min(start_pos + length, Len(decompressed))),
              panic |-> FALSE]

\* The same loop reading decompressed[i] in place of decompressed[start_pos + i].
RECURSIVE CopyFromFront(_, _, _, _)
CopyFromFront(decompressed, start_pos, length, i) ==
    IF i >= length THEN decompressed
    ELSE CopyFromFront(Append(decompressed, decompressed[i + 1]),
                       start_pos, length, i + 1)

\* `for i in 0..length { decompressed.push(decompressed[start_pos + i]); }`
RECURSIVE CopyFrom(_, _, _, _)
CopyFrom(decompressed, start_pos, length, i) ==
    IF i >= length THEN decompressed
    ELSE CopyFrom(Append(decompressed, decompressed[start_pos + i + 1]),
                  start_pos, length, i + 1)

\* The Match arm of lz77_decompress. `decompressed.len() - offset` below zero
\* panics in a build with overflow checks and wraps to an index past the end
\* otherwise; `decompressed[start_pos + i]` past the end panics in every
\* build, and is never evaluated when length is 0.
CopyMatch(decompressed, length, offset) ==
    IF offset > Len(decompressed) /\ overflow_checks
    THEN [out |-> decompressed, panic |-> TRUE]
    ELSE IF offset > Len(decompressed) \/ offset = 0
    THEN [out |-> decompressed, panic |-> length > 0]
    ELSE [out |-> CopyFrom(decompressed, Len(decompressed) - offset, length, 0),
          panic |-> FALSE]

(***************************************************************************)
(* SpecLZ77: lz77_compress_simple(buffer, window_size, min_match_len,      *)
(* max_match_len), then lz77_decompress on the LZ77Encoded it returned.    *)
(***************************************************************************)
MaxLz77Len == 7

Lz77Bytes == {97, 98}
Lz77Windows == {1, 3, 8}
Lz77MinLens == {1, 3, 4}
Lz77MaxLens == {3, 4, 6}

\* "aaaaaaaa" and "TOBEORNOTTOBEORNOT" with the parameters of their scenarios.
EightA == [i \in 1..8 |-> 97]
ToBeOrNot == <<84, 79, 66, 69, 79, 82, 78, 79, 84>>
Lz77Scenarios ==
    [bytes : {EightA}, window_size : {1, 8}, min_match_len : {3},
     max_match_len : {7, 9}]
        \cup [bytes : {ToBeOrNot \o ToBeOrNot}, window_size : {64},
              min_match_len : {4}, max_match_len : {9, 12}]

InitLZ77 ==
    /\ overflow_checks = TRUE
    /\ pc = "compress"
    /\ input \in [bytes : SeqsUpTo(Lz77Bytes, MaxLz77Len),
                  window_size : Lz77Windows,
                  min_match_len : Lz77MinLens,
                  max_match_len : Lz77MaxLens] \cup Lz77Scenarios
    /\ writer = Idle
    /\ reader = Idle
    /\ encoder = NewMatchFinder(input.bytes, input.window_size,
                                input.min_match_len, input.max_match_len)
    /\ decoder = Idle
    /\ data = <<>>
    /\ decoded = <<>>
    /\ local = [pos |-> 0]
    /\ hist = Idle

\* One iteration of `while pos + 3 < buffer.len()`.
Lz77CompressStep ==
    /\ pc = "compress"
    /\ local.pos + 3 < Len(input.bytes)
    /\ \E r \in {find_match(encoder, local.pos)} :
           /\ data' = Append(data, r.d)
           /\ IF r.d[1] = "Match"
              THEN \E m \in {InsertSkipped(r.matcher, local.pos + 1,
                                           local.pos + r.d[2])} :
                       /\ encoder' = m
                       /\ pc' = IF m.panic THEN "panic" ELSE "compress"
                       /\ local' = [pos |-> local.pos + r.d[2]]
              ELSE /\ encoder' = r.matcher
                   /\ pc' = IF r.matcher.panic THEN "panic" ELSE "compress"
                   /\ local' = [pos |-> local.pos + 1]
    /\ UNCHANGED <<overflow_checks, input, writer, reader, decoder, decoded,
                   hist>>

\* The loop is over: the bytes from pos on become literals (a pos past the
\* end panics), and lz77_decompress starts on the data.
Lz77CompressEnd ==
    /\ pc = "compress"
    /\ local.pos + 3 >= Len(input.bytes)
    /\ IF local.pos > Len(input.bytes)
       THEN /\ pc' = "panic"
            /\ UNCHANGED data
       ELSE /\ pc' = "decompress"
            /\ data' = data \o TailLiterals(input.bytes, local.pos)
    /\ local' = [i |-> 1]
    /\ UNCHANGED <<overflow_checks, input, writer, reader, encoder, decoder,
                   decoded, hist>>

\* One iteration of `for data in encoded.data`.
Lz77DecompressData ==
    /\ pc = "decompress"
    /\ local.i <= Len(data)
    /\ LET d == data[local.i]
       IN  IF d[1] = "Literal"
           THEN /\ decoded' = Append(decoded, d[2])
                /\ pc' = "decompress"
           ELSE \E c \in {CopyMatch(decoded, d[2], d[3])} :
                    /\ decoded' = c.out
                    /\ pc' = IF c.panic THEN "panic" ELSE "decompress"
    /\ local' = [i |-> local.i + 1]
    /\ UNCHANGED <<overflow_checks, input, writer, reader, encoder, decoder,
                   data, hist>>

\* The data ran out: decompressed is returned.
Lz77DecompressEnd ==
    /\ pc = "decompress"
    /\ local.i > Len(data)
    /\ pc' = "done"
    /\ UNCHANGED <<overflow_checks, input, writer, reader, encoder, decoder,
                   data, decoded, local, hist>>

NextLZ77 ==
    \/ Lz77CompressStep
    \/ Lz77CompressEnd
    \/ Lz77DecompressData
    \/ Lz77DecompressEnd

SpecLZ77 == InitLZ77 /\ [][NextLZ77]_vars

\* C3 (LZ77 round trip): for every byte sequence, inputs shorter than 4
\* bytes included, and every window_size >= 1, min_match_len >= 1 and
\* max_match_len >= 3, lz77_compress_simple and lz77_decompress do not panic
\* and the bytes returned are the input.
C3_Lz77RoundTrip ==
    /\ pc # "panic"
    /\ (pc = "done" => decoded = input.bytes)

\* A round trip through a match that overlaps the bytes it produces.
C3_Witness ==
    /\ pc = "done"
    /\ decoded = input.bytes
    /\ \E k \in 1..Len(data) :
           data[k][1] = "Match" /\ data[k][2] > data[k][3]

(***************************************************************************)
(* SpecLZ77Dec: lz77_decompress on LZ77Encoded values of any origin: some  *)
(* literals, one Match(length, offset), then at most one more item.        *)
(***************************************************************************)
MaxLits == 3
MaxCopyLen == 7
MaxOffset == 4

LiteralsOf(bytes) == [i \in 1..Len(bytes) |-> Literal(bytes[i])]

Lz77Tails == {<<>>, <<Literal(98)>>, <<Match(2, 2)>>}

Lz77Encodeds ==
    {LiteralsOf(b) \o <<Match(l, o)>> \o t :
        b \in SeqsUpTo(Lz77Bytes, MaxLits), l \in 0..MaxCopyLen,
        o \in 0..MaxOffset, t \in Lz77Tails}

InitLZ77Dec ==
    /\ overflow_checks \in BOOLEAN
    /\ pc = "decompress"
    /\ input = Idle
    /\ writer = Idle
    /\ reader = Idle
    /\ encoder = Idle
    /\ decoder = Idle
    /\ data \in Lz77Encodeds
    /\ decoded = <<>>
    /\ local = [i |-> 1]
    /\ hist = Idle

NextLZ77Dec ==
    \/ Lz77DecompressData
    \/ Lz77DecompressEnd

SpecLZ77Dec == InitLZ77Dec /\ [][NextLZ77Dec]_vars

\* The item lz77_decompress is about to process is a Match whose offset is
\* between 1 and the length of the output.
CopyInRange ==
    /\ pc = "decompress"
    /\ local.i <= Len(data)
    /\ data[local.i][1] = "Match"
    /\ data[local.i][3] >= 1
    /\ data[local.i][3] <= Len(decoded)

\* C11 (LZ77 overlapping copy): processing Match(l, o) with 1 <= o <=
\* |output|, o < l included, does not panic, keeps the output so far,
\* appends exactly l bytes, and every appended byte equals the byte o
\* positions before it in the resulting output.
C11_OverlappingCopy ==
    [][CopyInRange =>
          LET l == data[local.i][2]
              o == data[local.i][3]
          IN  /\ pc' = "decompress"
              /\ Len(decoded') = Len(decoded) + l
              /\ SubSeq(decoded', 1, Len(decoded)) = decoded
              /\ \A k \in (Len(decoded) + 1)..Len(decoded') :
                     decoded'[k] = decoded'[k - o]]_vars

\* [Literal 'a', Match(7, 1)] has been decoded to eight 'a' bytes.
C11_Witness ==
    /\ pc = "done"
    /\ data = <<Literal(97), Match(7, 1)>>
    /\ decoded = [k \in 1..8 |-> 97]

\* The bytes the items before item k stand for: 1 per literal, length per
\* match.
RECURSIVE BytesBefore(_)
BytesBefore(k) ==
    IF k <= 1 THEN 0
    ELSE BytesBefore(k - 1)
             + (IF data[k - 1][1] = "Match" THEN data[k - 1][2] ELSE 1)

\* Item k is a back-reference with offset 0 or an offset past the bytes
\* decoded before it.
InvalidBackReference(k) ==
    /\ data[k][1] = "Match"
    /\ (data[k][3] = 0 \/ data[k][3] > BytesBefore(k))

\* C21 (LZ77 invalid back-reference): lz77_decompress fails, returning no
\* bytes, for every item sequence with a back-reference (l, o) where o = 0
\* or o is greater than the number of bytes decoded before it, l = 0
\* included.
C21_InvalidBackReference ==
    (\E k \in 1..Len(data) : InvalidBackReference(k)) => pc # "done"

\* lz77_compress_simple has returned.
Lz77Compressed == pc \in {"decompress", "done"}

\* C12 (LZ77 overlap scenario): for "aaaaaaaa" with min_match_len 3,
\* max_match_len >= 7 and window_size >= 1, lz77_compress_simple returns
\* exactly Literal('a') followed by Match(length = 7, offset = 1).
C12_OverlapScenario ==
    (/\ Lz77Compressed
     /\ input.bytes = EightA
     /\ input.min_match_len = 3
     /\ input.max_match_len >= 7)
        => data = <<Literal(97), Match(7, 1)>>

\* The number of equal bytes at positions a + j and b + j, at most cap.
EqualRun(buffer, a, b, cap) ==
    LET Ok(n) == /\ n <= cap
                 /\ a + n <= Len(buffer)
                 /\ b + n <= Len(buffer)
                 /\ \A j \in 1..n : buffer[a + j] = buffer[b + j]
    IN  CHOOSE n \in 0..Len(buffer) : Ok(n) /\ ~Ok(n + 1)

\* One visit of position p: the match found at p is the latest earlier
\* position with the same three bytes, if the window reaches it, extended
\* while the bytes agree; it is emitted and skipped when its length and
\* offset are both >= min_match_len, and otherwise the byte at p is a
\* literal and p moves by one.
GreedyStep ==
    (pc = "compress" /\ local.pos + 3 < Len(input.bytes)) =>
        LET b == input.bytes
            pos == local.pos
            key == <<b[pos + 1], b[pos + 2], b[pos + 3]>>
            min_pos == IF input.window_size > pos THEN 0
                       ELSE pos - input.window_size
            found == /\ key \in DOMAIN encoder.head_map
                     /\ encoder.head_map[key] >= min_pos
            q == encoder.head_map[key]
            length == 3 + EqualRun(b, pos + 3, q + 3, input.max_match_len - 3)
            emit == /\ found
                    /\ length >= input.min_match_len
                    /\ pos - q >= input.min_match_len
        IN  /\ pc' = "compress"
            /\ emit => /\ data' = Append(data, Match(length, pos - q))
                       /\ local'.pos = pos + length
                       /\ q < pos
                       /\ SubSeq(b, q + 1, q + length)
                              = SubSeq(b, pos + 1, pos + length)
            /\ ~emit => /\ data' = Append(data, Literal(b[pos + 1]))
                        /\ local'.pos = pos + 1

\* C13 (LZ77 greedy policy): every visit of a position follows GreedyStep,
\* and "TOBEORNOTTOBEORNOT" with window_size 64, min_match_len 4 and
\* max_match_len >= 9 gives 9 literals followed by Match(9, 9).
C13_Greedy ==
    /\ [][GreedyStep]_vars
    /\ [](/\ Lz77Compressed
          /\ input.bytes = ToBeOrNot \o ToBeOrNot
          /\ input.window_size = 64
          /\ input.min_match_len = 4
          /\ input.max_match_len >= 9
          => data = LiteralsOf(ToBeOrNot) \o <<Match(9, 9)>>)

\* The scenario went through: the match was emitted, skipped and decoded.
C13_Witness ==
    /\ pc = "done"
    /\ input.bytes = ToBeOrNot \o ToBeOrNot
    /\ data[Len(data)] = Match(9, 9)
    /\ decoded = input.bytes

\* Position q is in the hash-chain index of matcher m: the head of its key
\* or the next of a later position.
Indexed(m, q) ==
    \/ \E k \in DOMAIN m.head_map : m.head_map[k] = q
    \/ \E p \in DOMAIN m.next_map : m.next_map[p] = q

\* C27 (skipped positions are indexed): when lz77_compress_simple emits
\* Match(length, offset) at position p, every position p+1 .. p+length-1
\* that has three bytes from it on is in the hash-chain index afterwards.
C27_SkippedIndexed ==
    [][(/\ pc = "compress"
        /\ Len(data') = Len(data) + 1
        /\ data'[Len(data')][1] = "Match")
       => \A q \in (local.pos + 1)..(local.pos + data'[Len(data')][2] - 1) :
              q + 3 <= Len(input.bytes) => Indexed(encoder', q)]_vars

(***************************************************************************)
(* SpecLZ77Short: lz77_compress_simple and lz77_decompress with a          *)
(* max_match_len below the three bytes of a key, in builds with and        *)
(* without overflow checks.                                                *)
(***************************************************************************)
Lz77ShortMaxLens == {1, 2}

InitLZ77Short ==
    /\ overflow_checks \in BOOLEAN
    /\ pc = "compress"
    /\ input \in {i \in [bytes : SeqsUpTo(Lz77Bytes, MaxLz77Len),
                          window_size : Lz77Windows,
                          min_match_len : Lz77MinLens,
                          max_match_len : Lz77ShortMaxLens] :
                     i.max_match_len >= i.min_match_len}
    /\ writer = Idle
    /\ reader = Idle
    /\ encoder = NewMatchFinder(input.bytes, input.window_size,
                                input.min_match_len, input.max_match_len)
    /\ decoder = Idle
    /\ data = <<>>
    /\ decoded = <<>>
    /\ local = [pos |-> 0]
    /\ hist = Idle

SpecLZ77Short == InitLZ77Short /\ [][NextLZ77]_vars

\* C28 (LZ77 item validity): for every input, window_size >= 1,
\* min_match_len >= 1 and max_match_len >= min_match_len, every
\* Match(length, offset) returned by lz77_compress_simple has
\* min_match_len <= length <= max_match_len and 1 <= offset <= window_size,
\* its offset is at most the input bytes the items before it cover, and the
\* item lengths sum to the input length.
C28_ItemValidity ==
    (Lz77Compressed /\ input.max_match_len >= input.min_match_len) =>
        /\ \A k \in 1..Len(data) :
               data[k][1] = "Match" =>
                   /\ data[k][2] >= input.min_match_len
                   /\ data[k][2] <= input.max_match_len
                   /\ data[k][3] >= 1
                   /\ data[k][3] <= input.window_size
                   /\ data[k][3] <= BytesBefore(k)
        /\ BytesBefore(Len(data) + 1) = Len(input.bytes)

\* The number of bytes code c stands for in the decoder's table.
RECURSIVE ExpansionLen(_, _)
ExpansionLen(table, c) ==
    IF c < 256 THEN 1 ELSE 1 + ExpansionLen(table, table[c].prev)

\* The step of decompress_lzw from this state to the next read a code, and
\* it is the entry made at the encoder's emission just before: the one
\* before next_code, whose last byte the decoder does not know.
ReadsSelfReference ==
    /\ pc = "decompress"
    /\ Len(hist'.read) = Len(hist.read) + 1
    /\ hist'.read[Len(hist'.read)][1] = decoder.next_code - 1
    /\ decoder.next_code - 1 >= START_CODE

\* C14 (LZW self-reference): when decompress_lzw reads the code of the
\* entry the encoder made at its preceding emission, it emits the expansion
\* of the code read before followed by that expansion's first byte, and
\* the output is still what the encoder encoded.
C14_SelfReference ==
    [][ReadsSelfReference =>
          LET prev == decoder.table[decoder.next_code - 1].prev
              n == ExpansionLen(decoder.table, prev)
              w == SubSeq(decoded, Len(decoded) - n + 1, Len(decoded))
          IN  /\ pc' = "decompress"
              /\ decoded' = decoded \o w \o <<w[1]>>
              /\ decoded' = SubSeq(input.bytes, 1, Len(decoded'))]_vars

\* "abababab" decoded through the self-reference 260 = "aba".
C14_Witness ==
    /\ pc = "done"
    /\ input.bytes = AbRun
    /\ \E k \in 1..Len(hist.read) : hist.read[k][1] = START_CODE + 2 /\ k = 4
    /\ decoded = AbRun

\* C23 (LZW width lock-step): for every non-empty input, decompress_lzw
\* reads each code of compress_lzw's output, CLEAR, the final code and EOD
\* included, at exactly the width at which the encoder wrote it.
C23_WidthLockStep ==
    \A k \in 1..Len(hist.read) :
        /\ k <= Len(hist.written)
        /\ hist.read[k][2] = hist.written[k][2]

(***************************************************************************)
(* SpecLZWDec: decompress_lzw on code streams of any origin: up to         *)
(* MaxCodes codes, each MIN_CODE_LEN bits wide, packed into bytes.         *)
(***************************************************************************)
MaxCodes == 3

\* Two bytes, CLEAR_CODE, EOD_CODE and the first three codes past them.
StreamCodes == {97, 98, CLEAR_CODE, EOD_CODE, START_CODE, START_CODE + 1,
                START_CODE + 2}

RECURSIVE PackCodes(_, _, _)
PackCodes(w, codes, i) ==
    IF i > Len(codes) THEN get_bytes(w)
    ELSE PackCodes(write_bits_u16(w, U16(codes[i]), MIN_CODE_LEN), codes, i + 1)

InitLZWDec ==
    /\ overflow_checks = TRUE
    /\ pc = "decompress"
    /\ input \in {[codes |-> c] : c \in SeqsUpTo(StreamCodes, MaxCodes)}
    /\ writer = Idle
    /\ reader = NewReader(PackCodes(NewWriter, input.codes, 1))
    /\ encoder = Idle
    /\ decoder = LzwDecoderLocals
    /\ data = PackCodes(NewWriter, input.codes, 1)
    /\ decoded = <<>>
    /\ local = Idle
    /\ hist = [written |-> <<>>, read |-> <<>>, why |-> "none"]

NextLZWDec == LzwDecompressCode

SpecLZWDec == InitLZWDec /\ [][NextLZWDec]_vars

\* decompress_lzw is about to read a whole code that is neither CLEAR_CODE
\* nor EOD_CODE; the code is the last one of hist'.read.
ReadsDataCode ==
    /\ pc = "decompress"
    /\ Len(hist'.read) = Len(hist.read) + 1
    /\ hist'.read[Len(hist'.read)][2] = decoder.code_len
    /\ hist'.read[Len(hist'.read)][1] \notin {CLEAR_CODE, EOD_CODE}

RECURSIVE LzwEncodeRange(_, _, _, _)
LzwEncodeRange(e, bytes, lo, hi) ==
    IF lo > hi \/ e.writer.panic THEN e
    ELSE IF lo = hi THEN LzwEncodeByte(e, bytes[lo])
    ELSE LET mid == (lo + hi) \div 2
             left == LzwEncodeRange(e, bytes, lo, mid)
         IN  IF left.writer.panic THEN left
             ELSE LzwEncodeRange(left, bytes, mid + 1, hi)

\* compress_lzw: bytes the Vec<u8> returned, log the <<code, width>> pairs
\* written; bytes[0] of an empty slice panics.
compress_lzw(bytes) ==
    IF Len(bytes) = 0 THEN [bytes |-> <<>>, log |-> <<>>, panic |-> TRUE]
    ELSE LET e == LzwEncodeEnd(
                     LzwEncodeRange(LzwEncoderLocals(bytes)
                                        @@ [writer |-> NewWriter, log |-> <<>>],
                                    bytes, 2, Len(bytes)))
         IN  [bytes |-> get_bytes(e.writer), log |-> e.log,
              panic |-> e.writer.panic]

\* One iteration of the loop of decompress_lzw on s: the locals, the reader,
\* decoded_bytes, the codes read, and for every CLEAR_CODE read the locals
\* it left behind and the number of bytes decoded by then.
LzwDecodeStep(s) ==
    LET d == LzwDecodeCode(s.dec, s.reader, s.out)
        cleared == d.read # <<>> /\ d.read[1][1] = CLEAR_CODE
    IN  [dec |-> d.dec, reader |-> d.reader, out |-> d.out,
         status |-> d.status, read |-> s.read \o d.read, why |-> d.why,
         clears |-> IF cleared
                    THEN Append(s.clears,
                           [code_len |-> d.dec.code_len,
                            curr_max_code |-> d.dec.curr_max_code,
                            next_code |-> d.dec.next_code,
                            fresh |-> d.dec.table = new_lzw_decompression_table,
                            at |-> Len(d.out)])
                    ELSE s.clears]

\* Up to n iterations of the loop; a break or a panic ends them.
RECURSIVE LzwDecodeTimes(_, _)
LzwDecodeTimes(s, n) ==
    IF n <= 0 \/ s.status # "loop" THEN s
    ELSE IF n = 1 THEN LzwDecodeStep(s)
    ELSE LET left == LzwDecodeTimes(s, n \div 2)
         IN  IF left.status # "loop" THEN left
             ELSE LzwDecodeTimes(left, n - (n \div 2))

\* decompress_lzw: every iteration that goes on has read MIN_CODE_LEN bits
\* or more, so the loop is over after bits / MIN_CODE_LEN + 1 iterations.
decompress_lzw(encoded_bytes) ==
    LzwDecodeTimes([dec |-> LzwDecoderLocals,
                    reader |-> NewReader(encoded_bytes),
                    out |-> <<>>, status |-> "loop", read |-> <<>>,
                    why |-> "none", clears |-> <<>>],
                   (8 * Len(encoded_bytes)) \div MIN_CODE_LEN + 1)

(***************************************************************************)
(* SpecLZWClear: tests::lzw_test with one action per call, on short inputs *)
(* and on ramps long enough for one and for two CLEAR codes.               *)
(***************************************************************************)
\* 1790 emissions bring next_code to 2048; 3844 are more than 4096 - 258.
ClearRampLens == {1795, 3845}

LzwClearInputs ==
    SeqsUpTo(LzwBytes, MaxLzwLen) \cup {Ramp(n) : n \in ClearRampLens}

InitLZWClear ==
    /\ overflow_checks = TRUE
    /\ pc = "start"
    /\ input \in {[bytes |-> b] : b \in LzwClearInputs}
    /\ writer = Idle
    /\ reader = Idle
    /\ encoder = Idle
    /\ decoder = Idle
    /\ data = <<>>
    /\ decoded = <<>>
    /\ local = Idle
    /\ hist = [written |-> <<>>, read |-> <<>>, clears |-> <<>>]

\* let encoded_bytes = compress_lzw(&bytes);
LzwCompress ==
    /\ pc = "start"
    /\ \E c \in {compress_lzw(input.bytes)} :
           /\ data' = c.bytes
           /\ hist' = [hist EXCEPT !.written = c.log]
           /\ pc' = IF c.panic THEN "panic" ELSE "decompress"
    /\ UNCHANGED <<overflow_checks, input, writer, reader, encoder, decoder,
                   decoded, local>>

\* let decoded_bytes = decompress_lzw(&encoded_bytes);
LzwDecompress ==
    /\ pc = "decompress"
    /\ \E d \in {decompress_lzw(data)} :
           /\ decoded' = d.out
           /\ hist' = [hist EXCEPT !.read = d.read, !.clears = d.clears]
           /\ pc' = CASE d.status = "break" -> "done"
                      [] d.status = "panic" -> "panic"
                      [] OTHER -> "running"
    /\ UNCHANGED <<overflow_checks, input, writer, reader, encoder, decoder,
                   data, local>>

NextLZWClear ==
    \/ LzwCompress
    \/ LzwDecompress

SpecLZWClear == InitLZWClear /\ [][NextLZWClear]_vars

\* The dictionary entries compress_lzw has made: one for each code written
\* in its loop, that is every code but CLEAR_CODE, EOD_CODE and the last
\* code before EOD_CODE.
EntriesMade(log) ==
    Cardinality({k \in 1..Len(log) : log[k][1] \notin {CLEAR_CODE, EOD_CODE}}) - 1

\* The entries after which the code width reaches LZW_MAX_CODE_LEN.
EntriesToFill == Pow2(LZW_MAX_CODE_LEN - 1) - START_CODE

\* C15 (LZW CLEAR): an output of compress_lzw for which EntriesToFill
\* entries or more were made (fewer than the 4096 - 258 that fill the code
\* space) contains CLEAR_CODE; every CLEAR_CODE read by decompress_lzw
\* leaves a fresh table, a code width of 9 and next_code = 258; and the
\* bytes decoded, those after a CLEAR_CODE included, are the input's.
C15_Clear ==
    pc \in {"decompress", "done", "panic", "running"} =>
        /\ EntriesMade(hist.written) >= EntriesToFill
               => \E k \in 1..Len(hist.written) : hist.written[k][1] = CLEAR_CODE
        /\ \A k \in 1..Len(hist.clears) :
               /\ hist.clears[k].fresh
               /\ hist.clears[k].code_len = MIN_CODE_LEN
               /\ hist.clears[k].curr_max_code = Pow2(MIN_CODE_LEN)
               /\ hist.clears[k].next_code = START_CODE
        /\ Len(decoded) <= Len(input.bytes)
        /\ decoded = SubSeq(input.bytes, 1, Len(decoded))
        /\ (pc = "done" /\ Len(hist.clears) > 0) => decoded = input.bytes

\* More entries than fill the code space, two CLEAR_CODEs written and read,
\* and bytes decoded after the second one.
C15_Witness ==
    /\ pc = "done"
    /\ EntriesMade(hist.written) >= MAX_CODE - START_CODE
    /\ Len(hist.clears) = 2
    /\ Len(decoded) > hist.clears[2].at
    /\ decoded = input.bytes

\* The position of the last CLEAR_CODE before position k of a log, or 0.
LastClearBefore(log, k) ==
    LET clears == {j \in 1..(k - 1) : log[j][1] = CLEAR_CODE}
    IN  IF clears = {} THEN 0
        ELSE CHOOSE j \in clears : \A i \in clears : i <= j

\* C24 (LZW CLEAR timing): compress_lzw writes CLEAR only at width 12 and
\* only when the next dictionary insert would overflow the 2^12 code space,
\* that is after the MAX_CODE - START_CODE entries since the start or the
\* last CLEAR that bring next_code to 4096 (one less is allowed here).
C24_ClearTiming ==
    \A k \in 1..Len(hist.written) :
        hist.written[k][1] = CLEAR_CODE =>
            /\ hist.written[k][2] = LZW_MAX_CODE_LEN
            /\ k - LastClearBefore(hist.written, k) - 1
                   >= MAX_CODE - START_CODE - 1

(***************************************************************************)
(* SpecLZWFlood: decompress_lzw as one call on code streams of any origin: *)
(* the short streams of SpecLZWDec, and floods of the code 97 without a    *)
(* CLEAR_CODE, each written as wide as the decoder reads it, then EOD_CODE.*)
(***************************************************************************)
\* 3838 = MAX_CODE - START_CODE data codes bring next_code to 4096.
FloodLens == {3837, 3838, 3839}

\* The width at which decompress_lzw reads its k-th code when no CLEAR_CODE
\* came before: next_code is START_CODE + k - 1 and the width grew at 512,
\* 1024, 2048 and 4096.
FloodWidth(k) ==
    LET next_code == START_CODE + k - 1
    IN  MIN_CODE_LEN + Cardinality({e \in 9..12 : next_code >= Pow2(e)})

\* The codes lo..hi of a flood written to w.
RECURSIVE FloodRange(_, _, _)
FloodRange(w, lo, hi) ==
    IF lo > hi THEN w
    ELSE IF lo = hi THEN write_bits_u16(w, U16(97), FloodWidth(lo))
    ELSE LET mid == (lo + hi) \div 2
             left == FloodRange(w, lo, mid)
         IN  IF left.panic THEN left
             ELSE FloodRange(left, mid + 1, hi)

FloodBytes(n) ==
    get_bytes(write_bits_u16(FloodRange(NewWriter, 1, n), U16(EOD_CODE),
                             FloodWidth(n + 1)))

InitLZWFlood ==
    /\ overflow_checks = TRUE
    /\ pc = "decompress"
    /\ input \in {[codes |-> c, flood |-> 0] :
                      c \in SeqsUpTo(StreamCodes, MaxCodes)}
                 \cup {[codes |-> <<>>, flood |-> n] : n \in FloodLens}
    /\ writer = Idle
    /\ reader = Idle
    /\ encoder = Idle
    /\ decoder = Idle
    /\ data = IF input.flood > 0 THEN FloodBytes(input.flood)
              ELSE PackCodes(NewWriter, input.codes, 1)
    /\ decoded = <<>>
    /\ local = Idle
    /\ hist = [read |-> <<>>, why |-> "none"]

\* decompress_lzw(&data); decoder keeps the locals the call ended with.
LzwDecompressStream ==
    /\ pc = "decompress"
    /\ \E d \in {decompress_lzw(data)} :
           /\ decoded' = d.out
           /\ decoder' = d.dec
           /\ hist' = [read |-> d.read, why |-> d.why]
           /\ pc' = CASE d.status = "break" -> "done"
                      [] d.status = "panic" -> "panic"
                      [] OTHER -> "running"
    /\ UNCHANGED <<overflow_checks, input, writer, reader, encoder, data,
                   local>>

NextLZWFlood == LzwDecompressStream

SpecLZWFlood == InitLZWFlood /\ [][NextLZWFlood]_vars

\* C25 (LZW decoder bounds): for any code stream, in every state of
\* decompress_lzw the code width is between 9 and 12 and next_code is below
\* 2^12, and no table access is out of range: a stream with more user
\* codes than fit and no CLEAR is tolerated.
C25_DecoderBounds ==
    decoder # Idle =>
        /\ decoder.code_len >= MIN_CODE_LEN
        /\ decoder.code_len <= LZW_MAX_CODE_LEN
        /\ decoder.next_code < MAX_CODE
        /\ hist.why # "index"

(***************************************************************************)
(* SpecReader: a BitReader over a byte slice and up to MaxCalls calls of   *)
(* read_bits_into_u32, read_bits_into_u32_with_shift and empty_bits.  hist *)
(* keeps the last call: its name, bit_num, the reader before it, the       *)
(* Option returned and whether it panicked.                                *)
(***************************************************************************)
MaxReaderBytes == 9
MaxCalls == 3

ReaderByte(i) == (37 * i + 128) % 256
ReaderStreams == {[i \in 1..k |-> ReaderByte(i)] : k \in 0..MaxReaderBytes}
ReaderWidths == {0, 1, 5, 8, 9, 17, 32}

\* remaining_bits counts the bits of the accumulator and of the bytes left.
CountersAgree(r) == r.remaining_bits = r.bits_in_buffer + 8 * Len(r.bytes)

InitReader ==
    /\ overflow_checks \in BOOLEAN
    /\ pc = "read"
    /\ input \in {[bytes |-> b] : b \in ReaderStreams}
    /\ writer = Idle
    /\ reader = NewReader(input.bytes)
    /\ encoder = Idle
    /\ decoder = Idle
    /\ data = <<>>
    /\ decoded = <<>>
    /\ local = [calls |-> 0]
    /\ hist = [op |-> "none"]

\* A call has returned res: the reader goes on while it did not panic and
\* its counters agree.
ReaderCalled(op, bit_num, res) ==
    /\ reader' = res.reader
    /\ hist' = [op |-> op, bit_num |-> bit_num, before |-> reader,
                val |-> res.val, panic |-> res.panic]
    /\ pc' = IF res.panic THEN "panic"
             ELSE IF CountersAgree(res.reader) THEN "read" ELSE "off"
    /\ local' = [calls |-> local.calls + 1]
    /\ UNCHANGED <<overflow_checks, input, writer, encoder, decoder, data,
                   decoded>>

ReaderRead ==
    /\ pc = "read"
    /\ local.calls < MaxCalls
    /\ \E n \in ReaderWidths : \E res \in {read_bits_into_u32(reader, n)} :
           ReaderCalled("read_bits_into_u32", n, res)

ReaderReadWithShift ==
    /\ pc = "read"
    /\ local.calls < MaxCalls
    /\ \E n \in ReaderWidths :
       \E res \in {read_bits_into_u32_with_shift(reader, n)} :
           ReaderCalled("read_bits_into_u32_with_shift", n, res)

ReaderEmptyBits ==
    /\ pc = "read"
    /\ local.calls < MaxCalls
    /\ \E n \in ReaderWidths : \E res \in {empty_bits(reader, n)} :
           ReaderCalled("empty_bits", n, res)

NextReader ==
    \/ ReaderRead
    \/ ReaderReadWithShift
    \/ ReaderEmptyBits

SpecReader == InitReader /\ [][NextReader]_vars

\* C16 (read at end of stream): for 0 <= n <= 32 read_bits_into_u32(n)
\* returns no value if and only if fewer than n bits remain, and with n = 0
\* it returns 0 in every reader state.
C16_ReadAtEnd ==
    hist.op = "read_bits_into_u32" =>
        /\ ~hist.panic
        /\ (hist.val = None) <=> (hist.bit_num > hist.before.remaining_bits)
        /\ hist.bit_num = 0 => hist.val = Some(U32(0))

\* C17 (saturating read): read_bits_into_u32_with_shift(n), 1 <= n <= 32,
\* consumes min(n, remaining) bits, so remaining_bits() afterwards is the
\* old value minus min(n, remaining); with 1 <= r < n bits remaining it
\* returns those r bits shifted left by n - r, and with n bits or more it
\* returns what read_bits_into_u32(n) returns and leaves the same reader.
C17_SaturatingRead ==
    (hist.op = "read_bits_into_u32_with_shift" /\ hist.bit_num >= 1) =>
        LET n == hist.bit_num
            r == hist.before.remaining_bits
            plain == read_bits_into_u32(hist.before, n)
        IN  /\ ~hist.panic
            /\ reader.remaining_bits = r - Min(n, r)
            /\ (1 <= r /\ r < n) =>
                   hist.val = Some(Shl32(TopBitsU32(hist.before.buffer, r), n - r))
            /\ r >= n => (hist.val = plain.val /\ reader = plain.reader)

\* C19 (skip_bits): for 0 <= n <= 32 empty_bits(n) terminates, and
\* afterwards remaining_bits() is the old value minus n when n <= remaining
\* and 0 when n exceeds the remaining bits.
C19_EmptyBits ==
    hist.op = "empty_bits" =>
        LET n == hist.bit_num
            r == hist.before.remaining_bits
        IN  /\ ~hist.panic
            /\ reader.remaining_bits = IF n <= r THEN r - n ELSE 0

(***************************************************************************)
(* SpecWriter: a BitWriter and up to MaxWrites calls of write_bits_u32 and *)
(* write_bits_u16, zero-width ones among them, in a build with and in a    *)
(* build without overflow checks.  hist keeps the last call and the writer *)
(* before it.                                                              *)
(***************************************************************************)
WriterWidths32 == {0, 1, 7, 8, 9, 32}
WriterWidths16 == {0, 1, 8, 9, 16}

\* All ones, and every other bit.
WriterValues(width) ==
    {[i \in 1..width |-> 1], [i \in 1..width |-> i % 2]}

InitWriter ==
    /\ overflow_checks \in BOOLEAN
    /\ pc = "write"
    /\ input = <<>>
    /\ writer = NewWriter
    /\ reader = Idle
    /\ encoder = Idle
    /\ decoder = Idle
    /\ data = <<>>
    /\ decoded = <<>>
    /\ local = [calls |-> 0]
    /\ hist = [op |-> "none"]

WriterCalled(op, bit_num, w) ==
    /\ writer' = w
    /\ hist' = [op |-> op, bit_num |-> bit_num, before |-> writer]
    /\ pc' = IF w.panic THEN "panic" ELSE "write"
    /\ local' = [calls |-> local.calls + 1]
    /\ UNCHANGED <<overflow_checks, input, reader, encoder, decoder, data,
                   decoded>>

WriterWrite32 ==
    /\ pc = "write"
    /\ local.calls < MaxWrites
    /\ \E n \in WriterWidths32 : \E v \in WriterValues(32) :
       \E w \in {write_bits_u32(writer, v, n)} :
           WriterCalled("write_bits_u32", n, w)

WriterWrite16 ==
    /\ pc = "write"
    /\ local.calls < MaxWrites
    /\ \E n \in WriterWidths16 : \E v \in WriterValues(16) :
       \E w \in {write_bits_u16(writer, v, n)} :
           WriterCalled("write_bits_u16", n, w)

NextWriter ==
    \/ WriterWrite32
    \/ WriterWrite16

SpecWriter == InitWriter /\ [][NextWriter]_vars

\* C18 (zero-width write): in every reachable writer state, a fresh writer
\* and a writer on a byte boundary included, write_bits_u32(value, 0) and
\* write_bits_u16(value, 0) complete without failure and leave the spilled
\* bytes, the accumulator and total_bits_written() as they were.
C18_ZeroWidthWrite ==
    (hist.op \in {"write_bits_u32", "write_bits_u16"} /\ hist.bit_num = 0) =>
        /\ ~writer.panic
        /\ writer.bytes = hist.before.bytes
        /\ writer.buffer = hist.before.buffer
        /\ total_bits_written(writer) = total_bits_written(hist.before)

\* Bit k (from 1) of the bytes encode_all_bytes produced, and the width bits
\* after position pos.
StreamBit(k) == BitsOf(data[((k - 1) \div 8) + 1], 8)[((k - 1) % 8) + 1]
FieldBits(pos, width) == [i \in 1..width |-> StreamBit(pos + i)]

\* The bits of a chunk's table entries: 9 of symbol and bits_per_level of
\* level - 1 each.
EntryBits(rec) ==
    HUFFMAN_MAX_SYMBOLS_SIZE + Max(CeilLog2(MaxLevel(rec.table)), 1)

\* C20 (Huffman chunk wire order): every chunk written by encode_chunk
\* starts with the 32-bit chunk length M, followed by the table (entry count
\* N, 4-bit maxDepth, N (symbol, depth - 1) entries), followed by the M codes.
C20_WireOrder ==
    pc \in {"decode", "done"} =>
        \A c \in 1..Len(hist.enc) :
            LET rec == hist.enc[c]
                table_at == rec.start + HUFFMAN_CHUNK_SIZE_BITS
                entries_at == table_at + HUFFMAN_MAX_SYMBOLS_SIZE + 4
                codes_at == entries_at + Len(rec.table) * EntryBits(rec)
            IN  /\ FieldBits(rec.start, HUFFMAN_CHUNK_SIZE_BITS) = U32(Len(rec.chunk))
                /\ FieldBits(table_at, HUFFMAN_MAX_SYMBOLS_SIZE)
                       = BitsOf(Len(rec.table), HUFFMAN_MAX_SYMBOLS_SIZE)
                /\ FieldBits(table_at + HUFFMAN_MAX_SYMBOLS_SIZE, 4)
                       = BitsOf(MaxLevel(rec.table), 4)
                /\ \A i \in 1..Len(rec.table) :
                       FieldBits(entries_at + (i - 1) * EntryBits(rec),
                                 HUFFMAN_MAX_SYMBOLS_SIZE)
                           = BitsOf(rec.table[i].symbol, HUFFMAN_MAX_SYMBOLS_SIZE)
                /\ rec.end - codes_at
                       = rec.end - rec.table_end - HUFFMAN_CHUNK_SIZE_BITS

====
